---- MODULE Spec2Model ----
(***************************************************************************)
(* A model of the register-mapping, device-bridging and data-exchange      *)
(* layer of Energy-Ladder: src/factory_io/factory_io_utils.py,             *)
(* src/labview/labview_integration.py and                                  *)
(* src/dashboard/components/metrics.py.                                    *)
(*                                                                         *)
(*   SpecSim        ModbusSimulator: one address-keyed store behind        *)
(*                  read_register / write_register / read_coil /           *)
(*                  write_coil / update_state.                             *)
(*   SpecMapper     map_modbus_to_observation and map_action_to_modbus,    *)
(*                  applied to inputs drawn from bounded sets.             *)
(*   SpecConfig     parse_modbus_config on a bounded set of files.         *)
(*   SpecScene      load_scene on a bounded set of files.                  *)
(*   SpecExchange   a payload builder, the caller's later changes, then    *)
(*                  export_for_labview and import_from_labview.            *)
(*   SpecImport     import_from_labview on a bounded set of files.         *)
(*   SpecStatus     status_indicator on a bounded set of texts.            *)
(*   SpecConcurrent two callers inside the mapper functions, interleaved   *)
(*                  statement by statement.                                *)
(*   SpecCycle      the control loop: read, observe, act, write.           *)
(*   SpecIncrement  two callers each incrementing one register of one      *)
(*                  simulator, with and without a caller-side mutex.       *)
(*                                                                         *)
(* Python values are tagged records [k, n, s]: an int n is IntV(n), a bool *)
(* is BoolV(b), None is NoneV, a string is StrV(characters), so that 0,    *)
(* False and "0" stay distinguishable.                                     *)
(***************************************************************************)
EXTENDS Integers, Sequences, FiniteSets, TLC

VARIABLES
    registers,   \* ModbusSimulator.registers: dict address -> value
    slave_id,    \* ModbusSimulator.slave_id
    simOp,       \* the last simulator call: [op, address, value, values]
    simRet,      \* what that call returned
    lastWrite,   \* history: per address, the kind and value of the last write
    mapPc,       \* mapper: "idle" | "ready" | "observed" | "acted"
    modbus_data, \* observe input: dict register address -> raw value
    register_map,\* observe input: dict observation name -> descriptor
    observations,\* observe output
    action,      \* act input: the action index
    action_map,  \* act input: dict action key -> ordered dict address key -> value
    writes,      \* act output
    cfgPc,       \* config loader: "idle" | "ready" | "done"
    cfgFile,     \* the configuration file handed to parse_modbus_config
    cfgOut,      \* its outcome: a returned config or a raised exception
    scenePc,     \* scene loader: "idle" | "ready" | "done"
    sceneFile,   \* the scene file handed to load_scene
    sceneLog,    \* the parse stages load_scene attempted, in order
    sceneOut,    \* its outcome: a returned scene or a raised exception
    lvPc,        \* exchange: "idle" | "start" | "built" | "exported" | "ready" | "imported"
    builder,     \* the builder that returned the payload
    clock,       \* what datetime.now() reads
    heap,        \* the dicts a payload may share with its caller, by object id
    payload,     \* the payload the builder returned
    fs,          \* the files, by path
    dest,        \* the path and format of the export, or the path of the import
    expOut,      \* the outcome of export_for_labview
    impOut,      \* the outcome of import_from_labview
    dirs,        \* the directories that exist
    stdout,      \* the lines printed
    statPc,      \* status_indicator: "idle" | "ready" | "done"
    statText,    \* the status text handed to status_indicator
    indicator,   \* the text it returned
    conGiven,    \* concurrent callers: the configuration and snapshot they were given
    conHeap,     \* the objects they can reach: the shared inputs and each caller's result
    conThread,   \* per caller: its call, its position in the loop, what it returned
    cycles,      \* control loop: the number of cycles completed
    pending,     \* the addresses of the write-set still to be written
    before,      \* history: the simulator's registers when the cycle's action was chosen
    incMode,     \* incrementing callers: "idle" | "bare" | "mutex"
    incAddr,     \* the address both callers increment
    incStart,    \* history: what a read of that address returned before either caller ran
    incPc,       \* per caller: "start" | "locked" | "read" | "written" | "done"
    incRead,     \* per caller: the value its read_register returned
    mutex        \* the caller holding the callers' mutex, or NoHolder

simVars == <<registers, slave_id, simOp, simRet, lastWrite>>
mapVars == <<mapPc, modbus_data, register_map, observations, action, action_map, writes>>
cfgVars == <<cfgPc, cfgFile, cfgOut>>
sceneVars == <<scenePc, sceneFile, sceneLog, sceneOut>>
lvVars == <<lvPc, builder, clock, heap, payload, fs, dest, expOut, impOut, dirs, stdout>>
statVars == <<statPc, statText, indicator>>
conVars == <<conGiven, conHeap, conThread>>
cycVars == <<cycles, pending, before>>
incVars == <<incMode, incAddr, incStart, incPc, incRead, mutex>>
coreVars == <<simVars, mapVars, cfgVars, sceneVars>>
extVars == <<statVars, conVars, cycVars, incVars>>
vars == <<coreVars, lvVars, extVars>>

----------------------------------------------------------------------------
(* Bounds *)

MaxAddr == 1        \* simulator and snapshot addresses are 0..MaxAddr
MaxVal == 1         \* register values are 0..MaxVal
MaxDigits == 2      \* a string address key has 1..MaxDigits decimal digits
MaxWrites == 2      \* an action's configuration declares at most MaxWrites writes
MaxChildren == 2    \* a scene's root element has at most MaxChildren children
MaxClock == 1       \* the clock reads 0..MaxClock
MaxStatusLen == 3   \* an arbitrary status text has at most MaxStatusLen characters
MaxCycles == 3      \* the control loop runs at most MaxCycles cycles

----------------------------------------------------------------------------
(* Python values and dictionaries *)

IntV(n) == [k |-> "int", n |-> n, s |-> <<>>]
BoolV(b) == [k |-> "bool", n |-> IF b THEN 1 ELSE 0, s |-> <<>>]
NoneV == [k |-> "none", n |-> 0, s |-> <<>>]
\* a string, as the sequence of its characters
StrV(s) == [k |-> "str", n |-> 0, s |-> s]

EmptyDict == [k \in {} |-> NoneV]

\* dict.get(key, default)
DictGet(d, key, default) == IF key \in DOMAIN d THEN d[key] ELSE default

\* d[key] = value
DictSet(d, key, value) ==
    [k \in DOMAIN d \cup {key} |-> IF k = key THEN value ELSE d[k]]

\* d.update(other)
DictUpdate(d, other) ==
    [k \in DOMAIN d \cup DOMAIN other |-> IF k \in DOMAIN other THEN other[k] ELSE d[k]]

\* every dict with keys among K and values among V
Dicts(K, V) == UNION {[D -> V] : D \in SUBSET K}

----------------------------------------------------------------------------
(* ModbusSimulator *)

Addr == 0..MaxAddr
RegisterValues == {IntV(n) : n \in 0..MaxVal}
CoilValues == {BoolV(TRUE), BoolV(FALSE)}
Values == RegisterValues \cup CoilValues

DefaultSlaveId == 1

NoCall == [op |-> "none", address |-> 0, value |-> NoneV, values |-> EmptyDict]
Call(op, address, value, values) ==
    [op |-> op, address |-> address, value |-> value, values |-> values]

\* __init__: self.slave_id = slave_id; self.registers = {}
ModbusSimulator_init ==
    /\ slave_id = DefaultSlaveId
    /\ registers = EmptyDict

\* return self.registers.get(address, 0)
read_register_default_one(address) ==
    /\ simRet' = DictGet(registers, address, IntV(1))
    /\ UNCHANGED <<registers, slave_id>>

\* a read that stores the default at an unset address
read_register_setdefault(address) ==
    /\ simRet' = DictGet(registers, address, IntV(0))
    /\ registers' = IF address \in DOMAIN registers THEN registers
                    ELSE DictSet(registers, address, IntV(0))
    /\ UNCHANGED slave_id

read_register(address) ==
    /\ simRet' = DictGet(registers, address, IntV(0))
    /\ UNCHANGED <<registers, slave_id>>

\* self.registers[address] = value; return True
write_register_setdefault(address, value) ==
    /\ registers' = IF address \in DOMAIN registers THEN registers
                    ELSE DictSet(registers, address, value)
    /\ simRet' = BoolV(TRUE)
    /\ UNCHANGED slave_id

write_register(address, value) ==
    /\ registers' = DictSet(registers, address, value)
    /\ simRet' = BoolV(TRUE)
    /\ UNCHANGED slave_id

\* return self.registers.get(address, False)
read_coil(address) ==
    /\ simRet' = DictGet(registers, address, BoolV(FALSE))
    /\ UNCHANGED <<registers, slave_id>>

\* a coil write that spares an address holding a register value
write_coil_spares_registers(address, value) ==
    /\ registers' = IF address \in DOMAIN registers /\ registers[address].k = "int"
                    THEN registers
                    ELSE DictSet(registers, address, value)
    /\ simRet' = BoolV(TRUE)
    /\ UNCHANGED slave_id

\* self.registers[address] = value; return True
write_coil(address, value) ==
    /\ registers' = DictSet(registers, address, value)
    /\ simRet' = BoolV(TRUE)
    /\ UNCHANGED slave_id

\* self.registers.update(new_values)
update_state_replace(new_values) ==
    /\ registers' = new_values
    /\ simRet' = NoneV
    /\ UNCHANGED slave_id

update_state(new_values) ==
    /\ registers' = DictUpdate(registers, new_values)
    /\ simRet' = NoneV
    /\ UNCHANGED slave_id

\* The calls a client makes, with the history of who wrote each address last.
NeverWritten == [kind |-> "none", value |-> NoneV]
Written(kind, value) == [kind |-> kind, value |-> value]

CallReadRegister(a) ==
    /\ UNCHANGED <<mapVars, cfgVars, sceneVars, lvVars, extVars>>
    /\ read_register(a)
    /\ simOp' = Call("read_register", a, NoneV, EmptyDict)
    /\ UNCHANGED lastWrite

CallWriteRegister(a, v) ==
    /\ UNCHANGED <<mapVars, cfgVars, sceneVars, lvVars, extVars>>
    /\ write_register(a, v)
    /\ simOp' = Call("write_register", a, v, EmptyDict)
    /\ lastWrite' = [lastWrite EXCEPT ![a] = Written("register", v)]

CallReadCoil(a) ==
    /\ UNCHANGED <<mapVars, cfgVars, sceneVars, lvVars, extVars>>
    /\ read_coil(a)
    /\ simOp' = Call("read_coil", a, NoneV, EmptyDict)
    /\ UNCHANGED lastWrite

CallWriteCoil(a, v) ==
    /\ UNCHANGED <<mapVars, cfgVars, sceneVars, lvVars, extVars>>
    /\ write_coil(a, v)
    /\ simOp' = Call("write_coil", a, v, EmptyDict)
    /\ lastWrite' = [lastWrite EXCEPT ![a] = Written("coil", v)]

CallUpdateState(new_values) ==
    /\ UNCHANGED <<mapVars, cfgVars, sceneVars, lvVars, extVars>>
    /\ update_state(new_values)
    /\ simOp' = Call("update_state", 0, NoneV, new_values)
    /\ lastWrite' = [a \in Addr |-> IF a \in DOMAIN new_values
                                    THEN Written("update", new_values[a])
                                    ELSE lastWrite[a]]

InitSim ==
    /\ ModbusSimulator_init
    /\ simOp = NoCall
    /\ simRet = NoneV
    /\ lastWrite = [a \in Addr |-> NeverWritten]

NextSim ==
    \/ \E a \in Addr : CallReadRegister(a)
    \/ \E a \in Addr, v \in RegisterValues : CallWriteRegister(a, v)
    \/ \E a \in Addr : CallReadCoil(a)
    \/ \E a \in Addr, v \in CoilValues : CallWriteCoil(a, v)
    \/ \E new_values \in Dicts(Addr, Values) : CallUpdateState(new_values)

----------------------------------------------------------------------------
(* RegisterMapper: map_modbus_to_observation, map_action_to_modbus *)

\* A dict the code iterates is a sequence of <<key, value>> items in
\* declaration order, with pairwise distinct keys.
RECURSIVE SeqsUpTo(_, _)
SeqsUpTo(S, n) ==
    IF n = 0 THEN {<<>>}
    ELSE LET shorter == SeqsUpTo(S, n - 1)
         IN  shorter \cup {Append(q, x) : q \in {r \in shorter : Len(r) = n - 1}, x \in S}

DistinctKeys(items) ==
    \A i, j \in 1..Len(items) : i # j => items[i][1] # items[j][1]

OrderedDicts(K, V, n) == {items \in SeqsUpTo(K \X V, n) : DistinctKeys(items)}

Keys(items) == {items[i][1] : i \in 1..Len(items)}

ObservationNames == {"temp", "speed"}
SnapshotValues == 0..(MaxVal + 1)
Conversions == {2, -1}
Offsets == {3, -4}

\* A descriptor {register, conversion, offset}, each key optional; its
\* register may name an address the snapshot cannot hold.
Descriptors ==
    UNION {[D -> Int] : D \in {}} \cup
    {d \in Dicts({"register", "conversion", "offset"},
                 (0..(MaxAddr + 1)) \cup Conversions \cup Offsets) :
        /\ "register" \in DOMAIN d => d["register"] \in 0..(MaxAddr + 1)
        /\ "conversion" \in DOMAIN d => d["conversion"] \in Conversions
        /\ "offset" \in DOMAIN d => d["offset"] \in Offsets}

Snapshots == Dicts(Addr, SnapshotValues)
RegisterMaps == OrderedDicts(ObservationNames, Descriptors, Cardinality(ObservationNames))

\* ObserveStep, zero-filling a name whose register the snapshot lacks.
ObserveStep_zero_fill(obs, item, data) ==
    LET obs_name == item[1]
        register_config == item[2]
        conversion == DictGet(register_config, "conversion", 1)
        offset == DictGet(register_config, "offset", 0)
    IN  IF "register" \in DOMAIN register_config
           /\ register_config["register"] \in DOMAIN data
        THEN DictSet(obs, obs_name,
                     data[register_config["register"]] * conversion + offset)
        ELSE DictSet(obs, obs_name, 0)

\* ObserveStep, adding the offset before scaling.
ObserveStep_offset_first(obs, item, data) ==
    LET obs_name == item[1]
        register_config == item[2]
        conversion == DictGet(register_config, "conversion", 1)
        offset == DictGet(register_config, "offset", 0)
    IN  IF "register" \in DOMAIN register_config
           /\ register_config["register"] \in DOMAIN data
        THEN DictSet(obs, obs_name,
                     (data[register_config["register"]] + offset) * conversion)
        ELSE obs

\* One pass of `for obs_name, register_config in register_map.items()`.
\* register_config.get('register') is None for a descriptor without the key,
\* and None is the key of no snapshot.
ObserveStep(obs, item, data) ==
    LET obs_name == item[1]
        register_config == item[2]
        conversion == DictGet(register_config, "conversion", 1)
        offset == DictGet(register_config, "offset", 0)
    IN  IF "register" \in DOMAIN register_config
           /\ register_config["register"] \in DOMAIN data
        THEN DictSet(obs, obs_name,
                     data[register_config["register"]] * conversion + offset)
        ELSE obs

RECURSIVE ObserveLoop(_, _, _)
ObserveLoop(obs, items, data) ==
    IF items = <<>> THEN obs
    ELSE ObserveLoop(ObserveStep(obs, Head(items), data), Tail(items), data)

map_modbus_to_observation(data, regmap) == ObserveLoop(EmptyDict, regmap, data)

\* An address or action key as a configuration gives it: a Python int, or a
\* string of decimal digits (what a decoded JSON object has for keys).
Digits == {0, 1}

RECURSIVE DecimalValue(_)
DecimalValue(s) ==
    IF s = <<>> THEN 0
    ELSE 10 * DecimalValue(SubSeq(s, 1, Len(s) - 1)) + s[Len(s)]

\* int(register_id)
PyInt(key) == IF key.k = "str" THEN DecimalValue(key.s) ELSE key.n

DigitStrings == SeqsUpTo(Digits, MaxDigits) \ {<<>>}
AddressKeys == {IntV(a) : a \in Addr} \cup {StrV(s) : s \in DigitStrings}
ActionValues == {IntV(0), IntV(1)}
ActionKeys == {IntV(1), StrV(<<1>>)}
ActionIndexes == {IntV(1), IntV(7)}

ActionConfigs == OrderedDicts(AddressKeys, ActionValues, MaxWrites)

\* What the other entries of an action map hold: a write no tested
\* configuration produces.
OtherConfig == <<<<IntV(MaxAddr + 5), IntV(5)>>>>

\* Action maps: any set of keys, one of them holding any configuration.
ActionMaps ==
    {[k \in D |-> IF k = f THEN c ELSE OtherConfig] :
        D \in SUBSET ActionKeys, f \in ActionKeys, c \in ActionConfigs}

\* ActLoop, keeping the first value written to an address.
RECURSIVE ActLoop_first_wins(_, _)
ActLoop_first_wins(w, items) ==
    IF items = <<>> THEN w
    ELSE LET address == PyInt(Head(items)[1])
         IN  ActLoop_first_wins(IF address \in DOMAIN w THEN w
                                ELSE DictSet(w, address, Head(items)[2]),
                                Tail(items))

\* writes[int(register_id)] = value
ActStep(w, item) == DictSet(w, PyInt(item[1]), item[2])

\* for register_id, value in action_config.items(): writes[int(register_id)] = value
RECURSIVE ActLoop(_, _)
ActLoop(w, items) ==
    IF items = <<>> THEN w
    ELSE ActLoop(ActStep(w, Head(items)), Tail(items))

\* map_action_to_modbus, falling back to the index as an int-coerced key.
map_action_to_modbus_coerced_index(act, amap) ==
    ActLoop(EmptyDict,
            DictGet(amap, act, DictGet(amap, StrV(<<act.n>>), <<>>)))

\* action_config = action_map.get(action, {}); then the loop over its items
map_action_to_modbus(act, amap) == ActLoop(EmptyDict, DictGet(amap, act, <<>>))

CallObserve ==
    /\ mapPc = "ready"
    /\ \E data \in Snapshots, regmap \in RegisterMaps :
        /\ modbus_data' = data
        /\ register_map' = regmap
        /\ observations' = map_modbus_to_observation(data, regmap)
    /\ mapPc' = "observed"
    /\ UNCHANGED <<action, action_map, writes>>
    /\ UNCHANGED <<simVars, cfgVars, sceneVars, lvVars, extVars>>

CallAct ==
    /\ mapPc = "ready"
    /\ \E act \in ActionIndexes, amap \in ActionMaps :
        /\ action' = act
        /\ action_map' = amap
        /\ writes' = map_action_to_modbus(act, amap)
    /\ mapPc' = "acted"
    /\ UNCHANGED <<modbus_data, register_map, observations>>
    /\ UNCHANGED <<simVars, cfgVars, sceneVars, lvVars, extVars>>

InitMapper ==
    /\ mapPc = "ready"
    /\ modbus_data = EmptyDict
    /\ register_map = <<>>
    /\ observations = EmptyDict
    /\ action = IntV(0)
    /\ action_map = EmptyDict
    /\ writes = EmptyDict

NextMapper ==
    \/ CallObserve
    \/ CallAct

----------------------------------------------------------------------------
(* Files, decoded JSON and the outcome of a call *)

\* JSON arrays and objects as json.load decodes them: a list of values, a
\* dict as its <<key, value>> items in document order.
ListV(items) == [k |-> "list", n |-> 0, s |-> items]
DictV(items) == [k |-> "dict", n |-> 0, s |-> items]

\* open() succeeds or raises one of these.
IOErrors == {"FileNotFoundError", "PermissionError"}

Return(value) == [kind |-> "return", exc |-> "", arg |-> <<>>, value |-> value]
Raise(exc, arg) == [kind |-> "raise", exc |-> exc, arg |-> arg, value |-> NoneV]

----------------------------------------------------------------------------
(* ModbusConfig loader: parse_modbus_config *)

ConfigPath == "modbus_config.json"

SlaveIdValues == {IntV(1), StrV(<<1>>), BoolV(TRUE), NoneV}
RegisterTables ==
    {ListV(q) : q \in SeqsUpTo({IntV(a) : a \in Addr}, MaxAddr + 1)}
    \cup {DictV(q) : q \in OrderedDicts({StrV(<<d>>) : d \in Digits}, {IntV(a) : a \in Addr}, 1)}
    \cup {NoneV, StrV(<<>>)}
PollingIntervals == {IntV(1), IntV(0)}

\* The JSON objects a configuration file may decode to: each of the three
\* keys present or absent, with values of any JSON type.
ConfigObjects ==
    {c \in Dicts({"slave_id", "registers", "polling_interval"},
                 SlaveIdValues \cup RegisterTables \cup PollingIntervals) :
        /\ "slave_id" \in DOMAIN c => c["slave_id"] \in SlaveIdValues
        /\ "registers" \in DOMAIN c => c["registers"] \in RegisterTables
        /\ "polling_interval" \in DOMAIN c => c["polling_interval"] \in PollingIntervals}

\* A file: whether open() succeeds, and what json.load makes of its text.
ConfigFiles ==
    {[io |-> e, json |-> "none", value |-> EmptyDict] : e \in IOErrors}
    \cup {[io |-> "ok", json |-> "malformed", value |-> EmptyDict]}
    \cup {[io |-> "ok", json |-> "object", value |-> c] : c \in ConfigObjects}

\* required_keys = ['slave_id', 'registers']
required_keys_registers_first == <<"registers", "slave_id">>

required_keys == <<"slave_id", "registers">>

\* for key in required_keys: if key not in config: raise ValueError(...)
RECURSIVE Validate(_, _)
Validate(config, keys) ==
    IF keys = <<>> THEN Return(config)
    ELSE IF Head(keys) \notin DOMAIN config
         THEN Raise("ValueError", <<"Missing required key: ", Head(keys)>>)
         ELSE Validate(config, Tail(keys))

\* with open(config_path, 'r') as f: config = json.load(f); then validate
parse_modbus_config(file) ==
    IF file.io # "ok" THEN Raise(file.io, <<ConfigPath>>)
    ELSE IF file.json = "malformed" THEN Raise("JSONDecodeError", <<>>)
    ELSE Validate(file.value, required_keys)

CallParseModbusConfig ==
    /\ cfgPc = "ready"
    /\ cfgOut' = parse_modbus_config(cfgFile)
    /\ cfgPc' = "done"
    /\ UNCHANGED cfgFile
    /\ UNCHANGED <<simVars, mapVars, sceneVars, lvVars, extVars>>

InitConfig ==
    /\ cfgPc = "ready"
    /\ cfgFile \in ConfigFiles
    /\ cfgOut = NoneV

NextConfig == CallParseModbusConfig

----------------------------------------------------------------------------
(* Scene parser: load_scene *)

\* An element of a parsed markup document.
Elem(tag, attrib, children) == [tag |-> tag, attrib |-> attrib, children |-> children]
NoAttrib == [a \in {} |-> ""]
NoElem == Elem("", NoAttrib, <<>>)

\* element.get(key): the attribute's text, or None
NoText == [present |-> FALSE, text |-> ""]
Text(x) == [present |-> TRUE, text |-> x]
ElementGet(element, key) ==
    IF key \in DOMAIN element.attrib THEN Text(element.attrib[key]) ELSE NoText

ComponentAttribs ==
    {[name |-> "c1", type |-> "conveyor"],
     [name |-> "c2", type |-> "pusher", speed |-> "5"],
     [type |-> "robot"]}
LeafElems ==
    {Elem("Component", a, <<>>) : a \in ComponentAttribs}
    \cup {Elem("Group", [name |-> "g"], <<>>)}
ChildElems ==
    LeafElems
    \cup {Elem("Group", NoAttrib, <<e>>) : e \in LeafElems}
    \cup {Elem("Component", [name |-> "c1", type |-> "conveyor"],
               <<Elem("Component", [name |-> "c2", type |-> "pusher", speed |-> "5"], <<>>)>>)}
RootElems ==
    {Elem(tag, a, kids) : tag \in {"Scene", "Component"},
                          a \in {NoAttrib, [name |-> "line1"]},
                          kids \in SeqsUpTo(ChildElems, MaxChildren)}

\* What a JSON scene decodes to.
JsonScenes ==
    {DictV(<<>>), DictV(<<<<StrV(<<1>>), ListV(<<IntV(1)>>)>>>>), IntV(1)}

ScenePaths == {"scene.xml", "scene.json"}

\* A scene file: its path, whether the open() inside ET.parse succeeds (io1),
\* whether the later open(scene_path, 'r') succeeds (io2), and its content:
\* well-formed markup ("xml"), text that is valid JSON ("json"), text that is
\* neither ("text") or bytes that do not decode as text ("binary").
SceneFile(path, io1, io2, content, root, value) ==
    [path |-> path, io1 |-> io1, io2 |-> io2, content |-> content,
     root |-> root, value |-> value]
SceneFiles ==
    {SceneFile(p, i1, "ok", "xml", r, NoneV) :
        p \in ScenePaths, i1 \in {"ok"} \cup IOErrors, r \in RootElems}
    \cup {SceneFile(p, i1, i2, "json", NoElem, v) :
        p \in ScenePaths, i1 \in {"ok"} \cup IOErrors, i2 \in {"ok"} \cup IOErrors,
        v \in JsonScenes}
    \cup {SceneFile(p, i1, i2, c, NoElem, NoneV) :
        p \in ScenePaths, i1 \in {"ok"} \cup IOErrors, i2 \in {"ok"} \cup IOErrors,
        c \in {"text", "binary"}}

\* The descendants of the elements of a list, in document order.
RECURSIVE Descendants(_)
Descendants(elems) ==
    IF elems = <<>> THEN <<>>
    ELSE <<Head(elems)>> \o Descendants(Head(elems).children) \o Descendants(Tail(elems))

IsComponent(element) == element.tag = "Component"

\* findall('Component'): the root's own children only.
FindAllComponents_children_only(root) == SelectSeq(root.children, IsComponent)

\* root.findall('.//Component')
FindAllComponents(root) == SelectSeq(Descendants(root.children), IsComponent)

\* component = {'name': ..., 'type': ..., 'properties': element.attrib}
Component(element) ==
    [name |-> ElementGet(element, "name"),
     type |-> ElementGet(element, "type"),
     properties |-> element.attrib]

\* scene_data, with one component appended per element found
SceneData(root) ==
    [format |-> "xml",
     root_tag |-> root.tag,
     attributes |-> root.attrib,
     components |-> [i \in 1..Len(FindAllComponents(root)) |->
                        Component(FindAllComponents(root)[i])]]

Attempt(log, out) == [log |-> log, out |-> out]

\* The except ET.ParseError branch: open the file again and json.load it.
JsonStage(file) ==
    IF file.io2 # "ok" THEN Raise(file.io2, <<file.path>>)
    ELSE IF file.content = "json" THEN Return(file.value)
    ELSE IF file.content = "binary" THEN Raise("UnicodeDecodeError", <<>>)
    ELSE Raise("ValueError", <<"Unable to parse scene file: ", file.path>>)

\* load_scene, with the markup stage's handler also catching OSError.
load_scene_fallback_on_io_error(file) ==
    IF file.io1 = "ok" /\ file.content = "xml"
    THEN Attempt(<<"xml">>, Return(SceneData(file.root)))
    ELSE Attempt(<<"xml", "json">>, JsonStage(file))

\* try: ET.parse(scene_path) ... except ET.ParseError: try json.load ...
\* except json.JSONDecodeError: raise ValueError(...)
load_scene(file) ==
    IF file.io1 # "ok" THEN Attempt(<<"xml">>, Raise(file.io1, <<file.path>>))
    ELSE IF file.content = "xml"
         THEN Attempt(<<"xml">>, Return(SceneData(file.root)))
         ELSE Attempt(<<"xml", "json">>, JsonStage(file))

CallLoadScene ==
    /\ scenePc = "ready"
    /\ sceneLog' = load_scene(sceneFile).log
    /\ sceneOut' = load_scene(sceneFile).out
    /\ scenePc' = "done"
    /\ UNCHANGED sceneFile
    /\ UNCHANGED <<simVars, mapVars, cfgVars, lvVars, extVars>>

InitScene ==
    /\ scenePc = "ready"
    /\ sceneFile \in SceneFiles
    /\ sceneLog = <<>>
    /\ sceneOut = NoneV

NextScene == CallLoadScene

----------------------------------------------------------------------------
(* LabVIEW exchange: src/labview/labview_integration.py                    *)
(*                                                                         *)
(* In this part a text is the sequence of its atoms: a lower-case word, a  *)
(* digit, or a punctuation mark such as "_" or ".", so that joining keys   *)
(* with "_" and formatting numbers are real operations on texts.           *)

\* a float, held in tenths: FloatV(15) is 1.5
FloatV(t) == [k |-> "float", n |-> t, s |-> <<>>]
TupleV(items) == [k |-> "tuple", n |-> 0, s |-> items]
\* an object json has no encoding for (a set, a date), with its str() text
ObjectV(text) == [k |-> "other", n |-> 0, s |-> text]
\* a reference to a dict on the heap
RefV(id) == [k |-> "ref", n |-> 0, s |-> <<id>>]

DigitChars == <<"0", "1", "2", "3", "4", "5", "6", "7", "8", "9">>

\* str(n) of a natural number
RECURSIVE NatText(_)
NatText(n) ==
    IF n < 10 THEN <<DigitChars[n + 1]>>
    ELSE Append(NatText(n \div 10), DigitChars[(n % 10) + 1])

\* str(n) of an int
IntText(n) == IF n < 0 THEN <<"-">> \o NatText(-n) ELSE NatText(n)
\* repr(x) of a float held in tenths
FloatText(t) ==
    LET a == IF t < 0 THEN -t ELSE t
    IN  (IF t < 0 THEN <<"-">> ELSE <<>>) \o NatText(a \div 10) \o <<".", DigitChars[(a % 10) + 1]>>

\* concatenation of texts with a separator between them
RECURSIVE JoinTexts(_, _)
JoinTexts(texts, sep) ==
    IF texts = <<>> THEN <<>>
    ELSE IF Len(texts) = 1 THEN texts[1]
    ELSE texts[1] \o sep \o JoinTexts(Tail(texts), sep)

\* repr(v) and str(v)
RECURSIVE PyRepr(_)
PyRepr(v) ==
    CASE v.k = "int" -> IntText(v.n)
      [] v.k = "float" -> FloatText(v.n)
      [] v.k = "bool" -> IF v.n = 1 THEN <<"True">> ELSE <<"False">>
      [] v.k = "none" -> <<"None">>
      [] v.k = "str" -> <<"'">> \o v.s \o <<"'">>
      [] v.k = "other" -> v.s
      [] v.k = "list" ->
            <<"[">> \o JoinTexts([i \in 1..Len(v.s) |-> PyRepr(v.s[i])], <<", ">>) \o <<"]">>
      [] v.k = "tuple" ->
            <<"(">> \o JoinTexts([i \in 1..Len(v.s) |-> PyRepr(v.s[i])], <<", ">>)
                \o (IF Len(v.s) = 1 THEN <<",">> ELSE <<>>) \o <<")">>
      [] v.k = "dict" ->
            <<"{">> \o JoinTexts([i \in 1..Len(v.s) |->
                                    PyRepr(v.s[i][1]) \o <<": ">> \o PyRepr(v.s[i][2])],
                                 <<", ">>) \o <<"}">>

PyStr(v) == IF v.k = "str" THEN v.s ELSE PyRepr(v)

\* bool(v)
Truthy(v) ==
    CASE v.k \in {"int", "float", "bool"} -> v.n # 0
      [] v.k = "none" -> FALSE
      [] v.k \in {"str", "list", "tuple", "dict"} -> v.s # <<>>
      [] OTHER -> TRUE

\* int(x) and float(x) of a number
PyIntOf(v) == IF v.k = "float" THEN IntV(IF v.n < 0 THEN -((-v.n) \div 10) ELSE v.n \div 10)
              ELSE IntV(v.n)
PyFloatOf(v) == IF v.k = "float" THEN v ELSE FloatV(10 * v.n)

\* d[key] = value on the items of an ordered dict
ItemsSet(items, key, value) ==
    IF \E i \in 1..Len(items) : items[i][1] = key
    THEN [i \in 1..Len(items) |-> IF items[i][1] = key THEN <<key, value>> ELSE items[i]]
    ELSE Append(items, <<key, value>>)

\* dict(pairs): a later pair replaces the value of an earlier equal key
RECURSIVE DictOf(_)
DictOf(pairs) ==
    IF pairs = <<>> THEN <<>>
    ELSE LET last == pairs[Len(pairs)]
         IN  ItemsSet(DictOf(SubSeq(pairs, 1, Len(pairs) - 1)), last[1], last[2])

ItemsGet(items, key) == items[CHOOSE i \in 1..Len(items) : items[i][1] = key][2]

----------------------------------------------------------------------------
(* json.dump(data, f, indent=2, default=str) and json.load *)

\* a JSON document: kind is "object" (s: its members, as <<name, document>>
\* pairs), "array" (s: its elements), "string" (s: its text), "integer", "real"
\* (n: the number, a real in tenths), "boolean" (n: 1 or 0) or "null"
Json(kind, n, s) == [k |-> kind, n |-> n, s |-> s]
\* text that is not a JSON document
JInvalid == Json("invalid", 0, <<>>)

\* the member name json writes for a dict key
JsonKey(key) ==
    CASE key.k = "str" -> key.s
      [] key.k = "int" -> IntText(key.n)
      [] key.k = "float" -> FloatText(key.n)
      [] key.k = "bool" -> IF key.n = 1 THEN <<"true">> ELSE <<"false">>
      [] key.k = "none" -> <<"null">>

\* json raises TypeError on a dict key of any other type; default= is not
\* consulted for keys
RECURSIVE JsonEncodable(_)
JsonEncodable(v) ==
    CASE v.k = "dict" ->
            \A i \in 1..Len(v.s) :
                /\ v.s[i][1].k \in {"str", "int", "float", "bool", "none"}
                /\ JsonEncodable(v.s[i][2])
      [] v.k \in {"list", "tuple"} -> \A i \in 1..Len(v.s) : JsonEncodable(v.s[i])
      [] OTHER -> TRUE

RECURSIVE JsonDump(_)
JsonDump(v) ==
    CASE v.k = "dict" ->
            Json("object", 0, [i \in 1..Len(v.s) |-> <<JsonKey(v.s[i][1]), JsonDump(v.s[i][2])>>])
      [] v.k \in {"list", "tuple"} -> Json("array", 0, [i \in 1..Len(v.s) |-> JsonDump(v.s[i])])
      [] v.k = "str" -> Json("string", 0, v.s)
      [] v.k = "int" -> Json("integer", v.n, <<>>)
      [] v.k = "float" -> Json("real", v.n, <<>>)
      [] v.k = "bool" -> Json("boolean", v.n, <<>>)
      [] v.k = "none" -> Json("null", 0, <<>>)
      [] v.k = "other" -> Json("string", 0, PyStr(v))

RECURSIVE JsonLoad(_)
JsonLoad(doc) ==
    CASE doc.k = "object" ->
            DictV(DictOf([i \in 1..Len(doc.s) |-> <<StrV(doc.s[i][1]), JsonLoad(doc.s[i][2])>>]))
      [] doc.k = "array" -> ListV([i \in 1..Len(doc.s) |-> JsonLoad(doc.s[i])])
      [] doc.k = "string" -> StrV(doc.s)
      [] doc.k = "integer" -> IntV(doc.n)
      [] doc.k = "real" -> FloatV(doc.n)
      [] doc.k = "boolean" -> BoolV(doc.n = 1)
      [] doc.k = "null" -> NoneV

\* the text of a JSON scalar
JsonScalarText(doc) ==
    CASE doc.k = "string" -> <<"\"">> \o doc.s \o <<"\"">>
      [] doc.k = "integer" -> IntText(doc.n)
      [] doc.k = "real" -> FloatText(doc.n)
      [] doc.k = "boolean" -> IF doc.n = 1 THEN <<"true">> ELSE <<"false">>
      [] doc.k = "null" -> <<"null">>

\* The rows csv.reader sees in a document written with indent=2, up to the
\* line of the first member (csv.DictReader reads no further): the opening
\* bracket, then the member line, split at its trailing comma when more
\* members follow.
JsonHeadRows(doc, more) ==
    IF doc.k \in {"object", "array"} /\ doc.s # <<>>
    THEN LET val == IF doc.k = "object" THEN doc.s[1][2] ELSE doc.s[1]
             head == IF doc.k = "object" THEN <<"  \"">> \o doc.s[1][1] \o <<"\": ">>
                     ELSE <<"  ">>
             open == val.k \in {"object", "array"} /\ val.s # <<>>
             line == CASE val.k = "object" -> head \o (IF open THEN <<"{">> ELSE <<"{}">>)
                       [] val.k = "array" -> head \o (IF open THEN <<"[">> ELSE <<"[]">>)
                       [] OTHER -> head \o JsonScalarText(val)
         IN  << << IF doc.k = "object" THEN <<"{">> ELSE <<"[">> >>,
                IF ~open /\ more THEN <<line, <<>>>> ELSE <<line>> >>
    ELSE IF doc.k = "object" THEN << << <<"{}">> >> >>
    ELSE IF doc.k = "array" THEN << << <<"[]">> >> >>
    ELSE << <<JsonScalarText(doc)>> >>

JsonRows(doc) == JsonHeadRows(doc, Len(doc.s) > 1)

----------------------------------------------------------------------------
(* Files: what json.load and csv.reader see in the same bytes *)

NoFile == [kind |-> "none", json |-> JInvalid, rows |-> <<>>]
\* a file whose buffered text never reached the disk
JsonFile_unflushed(doc) == [kind |-> "partial", json |-> JInvalid, rows |-> <<>>]

\* a file json.dump wrote completely
JsonFile(doc) == [kind |-> "json", json |-> doc, rows |-> JsonRows(doc)]
\* a file json.dump stopped writing at a key it cannot encode; the produced
\* lines were already written
PartialFile(doc) == [kind |-> "partial", json |-> JInvalid, rows |-> JsonHeadRows(doc, TRUE)]
\* a file of comma-separated rows; a row is a sequence of cells, a blank line
\* is the empty row
CsvFile(rows) == [kind |-> "csv", json |-> JInvalid, rows |-> rows]

\* the cell csv.writer writes for a value
CsvCell(v) == IF v.k = "none" THEN <<>> ELSE PyStr(v)

\* _flatten_dict(d, parent_key, sep='_'); d and the result are dict items
RECURSIVE _flatten_dict(_, _)
RECURSIVE FlattenLoop(_, _)
FlattenLoop(items, parent_key) ==
    IF items = <<>> THEN <<>>
    ELSE LET key == items[1][1]
             v == items[1][2]
             new_key == IF Truthy(parent_key)
                        THEN StrV(PyStr(parent_key) \o <<"_">> \o PyStr(key))
                        ELSE key
         IN  (IF v.k = "dict" THEN _flatten_dict(v.s, new_key) ELSE << <<new_key, v>> >>)
                 \o FlattenLoop(Tail(items), parent_key)

\* The same loop keeping the first value of a repeated name.
RECURSIVE FirstOf(_)
FirstOf(pairs) ==
    IF pairs = <<>> THEN <<>>
    ELSE LET rest == FirstOf(Tail(pairs))
         IN  <<pairs[1]>> \o SelectSeq(rest, LAMBDA p : p[1] # pairs[1][1])

_flatten_dict_first_wins(d, parent_key) == FirstOf(FlattenLoop(d, parent_key))

_flatten_dict(d, parent_key) == DictOf(FlattenLoop(d, parent_key))

\* os.path.dirname(output_path) or '.': the atoms before the last "/"
RECURSIVE Dirname(_)
Dirname(path) ==
    IF path = <<>> THEN <<".">>
    ELSE IF path[Len(path)] = "/" THEN SubSeq(path, 1, Len(path) - 1)
    ELSE Dirname(SubSeq(path, 1, Len(path) - 1))

\* os.makedirs(name, exist_ok=True)
makedirs(name, directories) == directories \cup {name}

\* the two branches that open output_path for writing: the outcome and the files
WriteFile(data, output_path, format, files) ==
    CASE format = "json" ->
            IF JsonEncodable(data)
            THEN [out |-> Return(NoneV),
                  files |-> [files EXCEPT ![output_path] = JsonFile(JsonDump(data))]]
            ELSE [out |-> Raise("TypeError", <<"keys must be str, int, float, bool or None">>),
                  files |-> [files EXCEPT ![output_path] =
                                PartialFile(JsonDump([data EXCEPT !.s = SubSeq(data.s, 1, 1)]))]]
      [] format = "csv" ->
            LET flat_data == _flatten_dict(data.s, StrV(<<>>))
                header == [i \in 1..Len(flat_data) |-> CsvCell(flat_data[i][1])]
                row == [i \in 1..Len(flat_data) |-> CsvCell(flat_data[i][2])]
            IN  [out |-> Return(NoneV),
                 files |-> [files EXCEPT ![output_path] = CsvFile(<<header, row>>)]]

\* print(f"Data exported to {output_path}")
Report(output_path) == <<"Data exported to ", output_path>>

\* an export that opens output_path for writing before it looks at the format
export_for_labview_opens_first(data, output_path, format, files, directories) ==
    LET written == IF format \in {"json", "csv"}
                   THEN WriteFile(data, output_path, format, files)
                   ELSE [out |-> Return(NoneV),
                         files |-> [files EXCEPT ![output_path] = CsvFile(<<>>)]]
    IN  [out |-> written.out,
         files |-> written.files,
         dirs |-> makedirs(Dirname(output_path), directories),
         printed |-> IF written.out.kind = "return" THEN <<Report(output_path)>> ELSE <<>>]

\* export_for_labview(data, output_path, format): the outcome, the files, the
\* directories and the lines printed. No branch is taken for a format other
\* than 'json' and 'csv'; the print is reached unless a branch raised.
export_for_labview(data, output_path, format, files, directories) ==
    LET written == IF format \in {"json", "csv"}
                   THEN WriteFile(data, output_path, format, files)
                   ELSE [out |-> Return(NoneV), files |-> files]
    IN  [out |-> written.out,
         files |-> written.files,
         dirs |-> makedirs(Dirname(output_path), directories),
         printed |-> IF written.out.kind = "return" THEN <<Report(output_path)>> ELSE <<>>]

\* str.endswith on a path, whose last atom is its extension
EndsWith(path, ext) == path # <<>> /\ path[Len(path)] = ext

\* next(csv.DictReader(f))
DictReaderNext(rows) ==
    LET data_rows == IF rows = <<>> THEN <<>>
                     ELSE SelectSeq(Tail(rows), LAMBDA r : r # <<>>)
    IN  IF data_rows = <<>> THEN Raise("StopIteration", <<>>)
        ELSE LET fieldnames == rows[1]
                 row == data_rows[1]
                 lf == Len(fieldnames)
                 lr == Len(row)
                 zipped == [i \in 1..(IF lf < lr THEN lf ELSE lr) |->
                              <<StrV(fieldnames[i]), StrV(row[i])>>]
                 rest == IF lf < lr
                         THEN << <<NoneV, ListV([i \in 1..(lr - lf) |-> StrV(row[lf + i])])>> >>
                         ELSE [i \in 1..(lf - lr) |-> <<StrV(fieldnames[lr + i]), NoneV>>]
             IN  Return(DictV(DictOf(zipped \o rest)))

\* the same dispatch on the kind of the file's contents instead of its name
import_from_labview_by_content(input_path, files) ==
    IF files[input_path].kind \in {"json", "partial"}
    THEN IF files[input_path].json = JInvalid THEN Raise("JSONDecodeError", <<>>)
         ELSE Return(JsonLoad(files[input_path].json))
    ELSE IF files[input_path].kind = "csv" THEN DictReaderNext(files[input_path].rows)
    ELSE Raise("ValueError", <<"Unsupported file format: ">> \o input_path)

\* import_from_labview(input_path)
import_from_labview(input_path, files) ==
    IF EndsWith(input_path, ".json")
    THEN IF files[input_path].kind = "none" THEN Raise("FileNotFoundError", input_path)
         ELSE IF files[input_path].json = JInvalid THEN Raise("JSONDecodeError", <<>>)
         ELSE Return(JsonLoad(files[input_path].json))
    ELSE IF EndsWith(input_path, ".csv")
    THEN IF files[input_path].kind = "none" THEN Raise("FileNotFoundError", input_path)
         ELSE DictReaderNext(files[input_path].rows)
    ELSE Raise("ValueError", <<"Unsupported file format: ">> \o input_path)

----------------------------------------------------------------------------
(* Payload builders *)

\* the keys of the payloads
Key ==
    [ timestamp |-> StrV(<<"timestamp">>),
      ai_decision |-> StrV(<<"ai", "_", "decision">>),
      action |-> StrV(<<"action">>),
      confidence |-> StrV(<<"confidence">>),
      power_savings_kw |-> StrV(<<"power", "_", "savings", "_", "kw">>),
      metadata |-> StrV(<<"metadata">>),
      system_status |-> StrV(<<"system", "_", "status">>),
      power |-> StrV(<<"power">>),
      efficiency |-> StrV(<<"efficiency">>),
      throughput |-> StrV(<<"throughput">>),
      handshake |-> StrV(<<"handshake">>),
      status |-> StrV(<<"status">>),
      version |-> StrV(<<"version">>),
      protocol |-> StrV(<<"protocol">>) ]

\* datetime.now().isoformat() at clock reading now
IsoFormat(now) == StrV(<<"t">> \o NatText(now))

\* The heap holds the dict the caller passes ("arg") and the dict a builder
\* creates with a {} literal ("new"); a payload refers to them by RefV.
ObjIds == {"arg", "new"}

\* prepare_ai_decision(action, confidence, power_savings, metadata);
\* metadata is None or RefV("arg")
prepare_ai_decision(act, confidence, power_savings, metadata, h, now) ==
    LET aliased == metadata.k = "ref" /\ Truthy(h[metadata.s[1]])
    IN  [payload |->
            DictV(<< <<Key.timestamp, IsoFormat(now)>>,
                     <<Key.ai_decision, DictV(<< <<Key.action, PyIntOf(act)>>,
                                             <<Key.confidence, PyFloatOf(confidence)>>,
                                             <<Key.power_savings_kw, PyFloatOf(power_savings)>> >>)>>,
                     <<Key.metadata, IF aliased THEN metadata ELSE RefV("new")>> >>),
         heap |-> IF aliased THEN h ELSE [h EXCEPT !["new"] = DictV(<<>>)]]

\* prepare_system_status(power_data, efficiency, throughput)
prepare_system_status(power_data, efficiency, throughput, h, now) ==
    [payload |->
        DictV(<< <<Key.timestamp, IsoFormat(now)>>,
                 <<Key.system_status, DictV(<< <<Key.power, power_data>>,
                                           <<Key.efficiency, efficiency>>,
                                           <<Key.throughput, throughput>> >>)>> >>),
     heap |-> h]

\* create_labview_handshake_payload(status, timestamp=None)
create_labview_handshake_payload(status, timestamp, h, now) ==
    [payload |->
        DictV(<< <<Key.handshake, DictV(<< <<Key.status, status>>,
                                       <<Key.timestamp, IF Truthy(timestamp) THEN timestamp
                                                    ELSE IsoFormat(now)>>,
                                       <<Key.version, StrV(<<"1", ".", "0">>)>>,
                                       <<Key.protocol, StrV(<<"TCP", "_", "JSON">>)>> >>)>> >>),
     heap |-> h]

\* the value a payload has on the heap h: every reference replaced by the
\* dict it points to
RECURSIVE Deref(_, _)
Deref(v, h) ==
    CASE v.k = "ref" -> h[v.s[1]]
      [] v.k = "dict" -> DictV([i \in 1..Len(v.s) |-> <<v.s[i][1], Deref(v.s[i][2], h)>>])
      [] v.k \in {"list", "tuple"} -> [v EXCEPT !.s = [i \in 1..Len(v.s) |-> Deref(v.s[i], h)]]
      [] OTHER -> v

----------------------------------------------------------------------------
(* Callers of the exchange layer *)

K == StrV(<<"k">>)

ActionArgs == {IntV(3), FloatV(27)}
ConfidenceArgs == {IntV(1), FloatV(5), FloatV(15), FloatV(-5)}
PowerSavingsArgs == {IntV(2), FloatV(25)}
\* the metadata a caller passes: None or a dict
MetadataArgs ==
    { NoneV,
      DictV(<<>>),
      DictV(<< <<K, IntV(1)>> >>),
      DictV(<< <<K, DictV(<< <<StrV(<<"n">>), FloatV(15)>> >>)>> >>),
      DictV(<< <<IntV(1), StrV(<<"x">>)>> >>),
      DictV(<< <<K, ObjectV(<<"{", "1", "}">>)>> >>),
      DictV(<< <<K, TupleV(<<IntV(1), IntV(2)>>)>> >>),
      DictV(<< <<StrV(<<"a", "_", "b">>), IntV(1)>>,
               <<StrV(<<"a">>), DictV(<< <<StrV(<<"b">>), IntV(2)>> >>)>> >>),
      DictV(<< <<TupleV(<<IntV(1), IntV(2)>>), IntV(3)>> >>),
      DictV(<< <<StrV(<<"e">>), DictV(<<>>)>>,
               <<StrV(<<"n">>), NoneV>>,
               <<StrV(<<"l">>), ListV(<<IntV(1), StrV(<<"a">>)>>)>>,
               <<StrV(<<"b">>), BoolV(TRUE)>> >>) }
PowerDataArgs ==
    { DictV(<< <<StrV(<<"total">>), FloatV(125)>> >>), DictV(<<>>), FloatV(125) }
EfficiencyArgs == {FloatV(9), IntV(1)}
ThroughputArgs == {IntV(40)}
StatusArgs == {StrV(<<"ok">>), StrV(<<"ready">>)}
TimestampArgs == {NoneV, StrV(<<>>), StrV(<<"t", "9">>)}

Paths ==
    { <<"out", ".json">>, <<"out", ".csv">>, <<"out", ".txt">>, <<"out", ".JSON">>,
      <<"json">>, <<"out", ".json", ".bak">>, <<"data", "/", "out", ".json">> }
Formats == {"json", "csv", "xml"}

NoDest == [path |-> <<>>, format |-> ""]

\* the working directory, and the file an earlier export left in data/
WorkingDir == {<<".">>}
EarlierPath == <<"data", "/", "out", ".json">>
EarlierExport == JsonFile(JsonDump(DictV(<< <<Key.status, StrV(<<"ok">>)>> >>)))

\* the files import_from_labview may find at a path
SourceFiles ==
    LET h == << <<"a">>, <<"b">> >>
        r == << <<"1">>, <<"2">> >>
        one == Json("integer", 1, <<>>)
        two == Json("integer", 2, <<>>)
        nested == Json("object", 0,
                       << << <<"b">>, Json("array", 0, <<Json("null", 0, <<>>),
                                                         Json("boolean", 1, <<>>)>>) >> >>)
    IN  { JsonFile(Json("object", 0, << << <<"a">>, one >> >>)),
          JsonFile(Json("object", 0, <<>>)),
          JsonFile(one),
          JsonFile(Json("array", 0, <<one, two>>)),
          JsonFile(Json("object", 0, << << <<"a">>, nested >>,
                                        << <<"c">>, Json("real", 15, <<>>) >> >>)),
          JsonFile(Json("object", 0, << << <<"a">>, one >>, << <<"a">>, two >> >>)),
          CsvFile(<<>>),
          CsvFile(<<h>>),
          CsvFile(<<h, r>>),
          CsvFile(<<h, << <<"1">> >> >>),
          CsvFile(<<h, << <<"1">>, <<"2">>, <<"3">> >> >>),
          CsvFile(<<h, <<>>, r, << <<"3">>, <<"4">> >> >>),
          CsvFile(<< <<>>, h, r>>),
          CsvFile(<< << <<"a">>, <<"a">> >>, r>>),
          CsvFile(<<h, << <<>>, <<>> >> >>),
          CsvFile(<<h, <<>>, <<>> >>) }

BuildDecision ==
    /\ lvPc = "start"
    /\ \E act \in ActionArgs, confidence \in ConfidenceArgs,
          power_savings \in PowerSavingsArgs, metadata \in MetadataArgs :
          LET built == prepare_ai_decision(act, confidence, power_savings,
                                           IF metadata = NoneV THEN NoneV ELSE RefV("arg"),
                                           [heap EXCEPT !["arg"] = metadata], clock)
          IN  /\ payload' = built.payload
              /\ heap' = built.heap
    /\ lvPc' = "built"
    /\ builder' = "prepare_ai_decision"
    /\ UNCHANGED <<clock, fs, dest, expOut, impOut, dirs, stdout>>
    /\ UNCHANGED <<coreVars, extVars>>

BuildStatus ==
    /\ lvPc = "start"
    /\ \E power_data \in PowerDataArgs, efficiency \in EfficiencyArgs,
          throughput \in ThroughputArgs :
          LET built == prepare_system_status(
                           IF power_data.k = "dict" THEN RefV("arg") ELSE power_data,
                           efficiency, throughput,
                           [heap EXCEPT !["arg"] = power_data], clock)
          IN  /\ payload' = built.payload
              /\ heap' = built.heap
    /\ lvPc' = "built"
    /\ builder' = "prepare_system_status"
    /\ UNCHANGED <<clock, fs, dest, expOut, impOut, dirs, stdout>>
    /\ UNCHANGED <<coreVars, extVars>>

BuildHandshake ==
    /\ lvPc = "start"
    /\ \E status \in StatusArgs, timestamp \in TimestampArgs :
          LET built == create_labview_handshake_payload(status, timestamp, heap, clock)
          IN  /\ payload' = built.payload
              /\ heap' = built.heap
    /\ lvPc' = "built"
    /\ builder' = "create_labview_handshake_payload"
    /\ UNCHANGED <<clock, fs, dest, expOut, impOut, dirs, stdout>>
    /\ UNCHANGED <<coreVars, extVars>>

\* the caller adds an entry to the dict it passed to the builder
CallerMutates ==
    /\ lvPc = "built"
    /\ heap["arg"].k = "dict"
    /\ StrV(<<"late">>) \notin Keys(heap["arg"].s)
    /\ heap' = [heap EXCEPT !["arg"] = DictV(Append(@.s, <<StrV(<<"late">>), IntV(1)>>))]
    /\ UNCHANGED <<lvPc, builder, clock, payload, fs, dest, expOut, impOut, dirs, stdout>>
    /\ UNCHANGED <<coreVars, extVars>>

Tick ==
    /\ lvPc \in {"start", "built"}
    /\ clock < MaxClock
    /\ clock' = clock + 1
    /\ UNCHANGED <<lvPc, builder, heap, payload, fs, dest, expOut, impOut, dirs, stdout>>
    /\ UNCHANGED <<coreVars, extVars>>

CallExport ==
    /\ lvPc = "built"
    /\ \E output_path \in Paths, format \in Formats :
          LET done == export_for_labview(Deref(payload, heap), output_path, format,
                                         fs, dirs)
          IN  /\ fs' = done.files
              /\ dirs' = done.dirs
              /\ stdout' = stdout \o done.printed
              /\ expOut' = done.out
              /\ dest' = [path |-> output_path, format |-> format]
    /\ lvPc' = "exported"
    /\ UNCHANGED <<builder, clock, heap, payload, impOut>>
    /\ UNCHANGED <<coreVars, extVars>>

CallImport ==
    /\ lvPc \in {"exported", "ready"}
    /\ impOut' = import_from_labview(dest.path, fs)
    /\ lvPc' = "imported"
    /\ UNCHANGED <<builder, clock, heap, payload, fs, dest, expOut, dirs, stdout>>
    /\ UNCHANGED <<coreVars, extVars>>

InitExchange ==
    /\ lvPc = "start"
    /\ builder = ""
    /\ clock = 0
    /\ heap = [id \in ObjIds |-> NoneV]
    /\ payload = NoneV
    /\ \/ /\ fs = [p \in Paths |-> NoFile]
          /\ dirs = WorkingDir
       \/ /\ fs = [p \in Paths |-> IF p = EarlierPath THEN EarlierExport ELSE NoFile]
          /\ dirs = WorkingDir \cup {Dirname(EarlierPath)}
    /\ dest = NoDest
    /\ expOut = NoneV
    /\ impOut = NoneV
    /\ stdout = <<>>

NextExchange ==
    \/ BuildDecision
    \/ BuildStatus
    \/ BuildHandshake
    \/ CallerMutates
    \/ Tick
    \/ CallExport
    \/ CallImport

InitImport ==
    /\ lvPc = "ready"
    /\ builder = ""
    /\ clock = 0
    /\ heap = [id \in ObjIds |-> NoneV]
    /\ payload = NoneV
    /\ \E input_path \in Paths, file \in SourceFiles \cup {NoFile} :
          /\ fs = [p \in Paths |-> IF p = input_path THEN file ELSE NoFile]
          /\ dest = [path |-> input_path, format |-> ""]
          /\ dirs = WorkingDir \cup {Dirname(input_path)}
    /\ expOut = NoneV
    /\ impOut = NoneV
    /\ stdout = <<>>

NextImport == CallImport

----------------------------------------------------------------------------
(* Dashboard: status_indicator, src/dashboard/components/metrics.py *)

\* a status is the sequence of its characters
Lower == <<"a", "e", "g", "i", "l", "n", "o", "p", "r", "t", "w">>
Upper == <<"A", "E", "G", "I", "L", "N", "O", "P", "R", "T", "W">>

\* str.upper(), character by character
UpperChar(c) ==
    IF \E i \in 1..Len(Lower) : Lower[i] = c
    THEN Upper[CHOOSE i \in 1..Len(Lower) : Lower[i] = c]
    ELSE c
StrUpper(text) == [i \in 1..Len(text) |-> UpperChar(text[i])]

OPERATIONAL == <<"o", "p", "e", "r", "a", "t", "i", "o", "n", "a", "l">>
WARNING == <<"w", "a", "r", "n", "i", "n", "g">>
ERROR == <<"e", "r", "r", "o", "r">>

\* the lookup, ignoring the case of the status
color_map_get_any_case(text) ==
    CASE StrUpper(text) = StrUpper(OPERATIONAL) -> "green circle"
      [] StrUpper(text) = StrUpper(WARNING) -> "yellow circle"
      [] StrUpper(text) = StrUpper(ERROR) -> "red circle"
      [] OTHER -> "question mark"

\* color_map.get(status, unknown icon); an icon is one character
color_map_get(text) ==
    CASE text = OPERATIONAL -> "green circle"
      [] text = WARNING -> "yellow circle"
      [] text = ERROR -> "red circle"
      [] OTHER -> "question mark"

\* f"{color_map.get(status, unknown icon)} {status.upper()}"
status_indicator(text) == <<color_map_get(text), " ">> \o StrUpper(text)

\* the three documented statuses, their upper-case and capitalised
\* spellings, and every short text over a few characters
Statuses ==
    {OPERATIONAL, WARNING, ERROR}
    \cup {StrUpper(t) : t \in {OPERATIONAL, WARNING, ERROR}}
    \cup { <<"E", "r", "r", "o", "r">>, <<"e", "r", "r", "o", "r", " ">> }
    \cup SeqsUpTo({"e", "R", " ", "7"}, MaxStatusLen)

CallStatusIndicator ==
    /\ statPc = "ready"
    /\ indicator' = status_indicator(statText)
    /\ statPc' = "done"
    /\ UNCHANGED statText
    /\ UNCHANGED <<coreVars, lvVars, conVars, cycVars, incVars>>

InitStatus ==
    /\ statPc = "ready"
    /\ statText \in Statuses
    /\ indicator = <<>>

NextStatus == CallStatusIndicator

----------------------------------------------------------------------------
(* Concurrent callers of map_modbus_to_observation and map_action_to_modbus *)
(*                                                                         *)
(* Each caller runs one call statement by statement: it creates its result *)
(* dict, makes one pass of the loop per step, reading the shared inputs as  *)
(* they are at that step, and returns a reference to its result.  After    *)
(* the return the caller may change the mapping it got back.               *)

Threads == {1, 2}

\* the shared inputs the callers are given
ConSnapshots == { [a \in Addr |-> MaxVal], [a \in {0} |-> 1] }
ConRegisterMaps ==
    { << <<"temp", [register |-> 0, conversion |-> 2, offset |-> 3]>>,
         <<"speed", [register |-> MaxAddr]>> >>,
      << <<"speed", [register |-> MaxAddr + 1]>>,
         <<"temp", [register |-> 0, offset |-> -4]>> >> }
ConActionMaps ==
    { [k \in {IntV(1)} |-> << <<IntV(0), IntV(1)>>, <<StrV(<<0>>), IntV(0)>>,
                              <<IntV(MaxAddr), IntV(1)>> >>] }

NoThread == [op |-> "none", pc |-> "idle", i |-> 0, ret |-> "none"]

\* the items the caller's loop runs over: register_map.items(), or
\* action_map.get(action, {}).items()
LoopItems(t) ==
    IF conThread[t].op = "observe" THEN conHeap.register_map
    ELSE DictGet(conHeap.action_map, conGiven.action, <<>>)

\* observations = {} / writes = {}
Begin(t, op) ==
    /\ conThread[t].pc = "idle"
    /\ conThread' = [conThread EXCEPT ![t] = [op |-> op, pc |-> "loop", i |-> 0, ret |-> "none"]]
    /\ conHeap' = [conHeap EXCEPT !.out[t] = EmptyDict]
    /\ UNCHANGED conGiven
    /\ UNCHANGED <<coreVars, lvVars, statVars, cycVars, incVars>>

\* one pass of the loop
LoopStep(t) ==
    /\ conThread[t].pc = "loop"
    /\ conThread[t].i < Len(LoopItems(t))
    /\ LET item == LoopItems(t)[conThread[t].i + 1]
       IN  conHeap' = [conHeap EXCEPT !.out[t] =
                          IF conThread[t].op = "observe"
                          THEN ObserveStep(@, item, conHeap.modbus_data)
                          ELSE ActStep(@, item)]
    /\ conThread' = [conThread EXCEPT ![t].i = @ + 1]
    /\ UNCHANGED conGiven
    /\ UNCHANGED <<coreVars, lvVars, statVars, cycVars, incVars>>

\* a return of the configured mapping itself instead of the built one
ReturnedObject_config(t) == IF conThread[t].op = "act" THEN "config" ELSE "out"

\* return observations / return writes: the dict the call created
ReturnedObject(t) == "out"

Return_(t) ==
    /\ conThread[t].pc = "loop"
    /\ conThread[t].i = Len(LoopItems(t))
    /\ conThread' = [conThread EXCEPT ![t].pc = "returned", ![t].ret = ReturnedObject(t)]
    /\ UNCHANGED <<conGiven, conHeap>>
    /\ UNCHANGED <<coreVars, lvVars, statVars, cycVars, incVars>>

\* the caller stores an entry in the mapping it got back
MutateResult(t) ==
    /\ conThread[t].pc = "returned"
    /\ conHeap' =
          IF conThread[t].ret = "out"
          THEN [conHeap EXCEPT !.out[t] =
                   IF conThread[t].op = "observe" THEN DictSet(@, "late", 9)
                   ELSE DictSet(@, MaxAddr + 1, IntV(9))]
          ELSE IF conGiven.action \in DOMAIN conHeap.action_map
          THEN [conHeap EXCEPT !.action_map[conGiven.action] =
                                   Append(@, <<IntV(MaxAddr + 1), IntV(9)>>)]
          ELSE conHeap
    /\ conThread' = [conThread EXCEPT ![t].pc = "changed"]
    /\ UNCHANGED conGiven
    /\ UNCHANGED <<coreVars, lvVars, statVars, cycVars, incVars>>

InitConcurrent ==
    /\ conGiven \in [modbus_data : ConSnapshots, register_map : ConRegisterMaps,
                     action_map : ConActionMaps, action : ActionIndexes]
    /\ conHeap = [modbus_data |-> conGiven.modbus_data,
                  register_map |-> conGiven.register_map,
                  action_map |-> conGiven.action_map,
                  out |-> [t \in Threads |-> EmptyDict]]
    /\ conThread = [t \in Threads |-> NoThread]

NextConcurrent ==
    \/ \E t \in Threads, op \in {"observe", "act"} : Begin(t, op)
    \/ \E t \in Threads : LoopStep(t)
    \/ \E t \in Threads : Return_(t)
    \/ \E t \in Threads : MutateResult(t)

IdleConcurrent ==
    /\ conGiven = [modbus_data |-> EmptyDict, register_map |-> <<>>,
                   action_map |-> EmptyDict, action |-> IntV(0)]
    /\ conHeap = [modbus_data |-> EmptyDict, register_map |-> <<>>,
                  action_map |-> EmptyDict, out |-> [t \in Threads |-> EmptyDict]]
    /\ conThread = [t \in Threads |-> NoThread]

----------------------------------------------------------------------------
(* The control loop around RegisterMapper and the simulator: each cycle     *)
(* reads the snapshot from the transport, maps it to an observation, takes *)
(* an action from the policy, maps it to a write-set and applies the       *)
(* write-set through the transport, one write_register per address.        *)

CycleRegisterMaps ==
    { << <<"temp", [register |-> 0, conversion |-> 2, offset |-> 3]>>,
         <<"speed", [register |-> MaxAddr]>> >>,
      << <<"speed", [register |-> MaxAddr, conversion |-> -1, offset |-> -4]>> >> }

CycleActionMaps ==
    { (IntV(0) :> << <<IntV(0), IntV(1)>> >>) @@
      (IntV(1) :> << <<StrV(<<0>>), IntV(0)>>, <<IntV(MaxAddr), IntV(1)>> >>),
      (IntV(0) :> << <<IntV(MaxAddr), IntV(0)>> >>) @@
      (IntV(1) :> << <<IntV(0), IntV(0)>>, <<StrV(<<0>>), IntV(1)>> >>) }

\* what the policy may choose; 7 is the key of no action map
CycleActions == {IntV(0), IntV(1), IntV(7)}

\* steps (1) and (2): read every address with read_register, then observe
Sense ==
    /\ mapPc \in {"ready", "acted"}
    /\ pending = {}
    /\ cycles < MaxCycles
    /\ modbus_data' = [a \in Addr |-> DictGet(registers, a, IntV(0)).n]
    /\ observations' = map_modbus_to_observation(modbus_data', register_map)
    /\ mapPc' = "observed"
    /\ UNCHANGED <<register_map, action, action_map, writes>>
    /\ UNCHANGED <<simVars, cfgVars, sceneVars, lvVars, statVars, conVars, cycVars, incVars>>

\* steps (3) and (4): the policy's action, mapped to a write-set
Decide ==
    /\ mapPc = "observed"
    /\ \E act \in CycleActions :
          /\ action' = act
          /\ writes' = map_action_to_modbus(act, action_map)
    /\ pending' = DOMAIN writes'
    /\ before' = registers
    /\ mapPc' = "acted"
    /\ cycles' = cycles + 1
    /\ UNCHANGED <<modbus_data, register_map, observations, action_map>>
    /\ UNCHANGED <<simVars, cfgVars, sceneVars, lvVars, statVars, conVars, incVars>>

\* step (5): one write of the write-set through the transport
Apply ==
    /\ mapPc = "acted"
    /\ \E a \in pending :
          /\ write_register(a, writes[a])
          /\ simOp' = Call("write_register", a, writes[a], EmptyDict)
          /\ lastWrite' = [lastWrite EXCEPT ![a] = Written("register", writes[a])]
          /\ pending' = pending \ {a}
    /\ UNCHANGED <<cycles, before>>
    /\ UNCHANGED <<mapVars, cfgVars, sceneVars, lvVars, statVars, conVars, incVars>>

InitCycle ==
    /\ InitSim
    /\ mapPc = "ready"
    /\ modbus_data = EmptyDict
    /\ register_map \in CycleRegisterMaps
    /\ observations = EmptyDict
    /\ action = IntV(0)
    /\ action_map \in CycleActionMaps
    /\ writes = EmptyDict
    /\ cycles = 0
    /\ pending = {}
    /\ before = EmptyDict

NextCycle ==
    \/ Sense
    \/ Decide
    \/ Apply

IdleCycle ==
    /\ cycles = 0
    /\ pending = {}
    /\ before = EmptyDict

----------------------------------------------------------------------------
(* Two callers incrementing one register of one simulator *)

\* Each caller runs  v = sim.read_register(a); sim.write_register(a, v + 1).
\* A call of the simulator is one step; between a caller's read and its
\* write the other caller may run. In mode "mutex" each caller takes the
\* callers' mutex before its read and gives it back after its write.
Callers == {1, 2}
NoHolder == 0

Acquire(c) ==
    /\ incMode = "mutex"
    /\ incPc[c] = "start"
    /\ mutex = NoHolder
    /\ mutex' = c
    /\ incPc' = [incPc EXCEPT ![c] = "locked"]
    /\ UNCHANGED <<incMode, incAddr, incStart, incRead>>
    /\ UNCHANGED <<coreVars, lvVars, statVars, conVars, cycVars>>

\* v = sim.read_register(a)
IncrementRead(c) ==
    /\ incPc[c] = IF incMode = "mutex" THEN "locked" ELSE "start"
    /\ incMode # "idle"
    /\ read_register(incAddr)
    /\ simOp' = Call("read_register", incAddr, NoneV, EmptyDict)
    /\ incRead' = [incRead EXCEPT ![c] = simRet']
    /\ incPc' = [incPc EXCEPT ![c] = "read"]
    /\ UNCHANGED <<lastWrite, incMode, incAddr, incStart, mutex>>
    /\ UNCHANGED <<mapVars, cfgVars, sceneVars, lvVars, statVars, conVars, cycVars>>

\* sim.write_register(a, v + 1)
IncrementWrite(c) ==
    /\ incPc[c] = "read"
    /\ LET value == IntV(incRead[c].n + 1)
       IN  /\ write_register(incAddr, value)
           /\ simOp' = Call("write_register", incAddr, value, EmptyDict)
           /\ lastWrite' = [lastWrite EXCEPT ![incAddr] = Written("register", value)]
    /\ incPc' = [incPc EXCEPT ![c] = IF incMode = "mutex" THEN "written" ELSE "done"]
    /\ UNCHANGED <<incMode, incAddr, incStart, incRead, mutex>>
    /\ UNCHANGED <<mapVars, cfgVars, sceneVars, lvVars, statVars, conVars, cycVars>>

Release(c) ==
    /\ incPc[c] = "written"
    /\ mutex = c
    /\ mutex' = NoHolder
    /\ incPc' = [incPc EXCEPT ![c] = "done"]
    /\ UNCHANGED <<incMode, incAddr, incStart, incRead>>
    /\ UNCHANGED <<coreVars, lvVars, statVars, conVars, cycVars>>

\* The simulator after any earlier register writes, and the two callers
\* about to start.
InitIncrement ==
    /\ registers \in Dicts(Addr, RegisterValues)
    /\ slave_id = DefaultSlaveId
    /\ simOp = NoCall
    /\ simRet = NoneV
    /\ lastWrite = [a \in Addr |-> IF a \in DOMAIN registers
                                   THEN Written("register", registers[a])
                                   ELSE NeverWritten]
    /\ incMode \in {"bare", "mutex"}
    /\ incAddr \in Addr
    /\ incStart = DictGet(registers, incAddr, IntV(0)).n
    /\ incPc = [c \in Callers |-> "start"]
    /\ incRead = [c \in Callers |-> NoneV]
    /\ mutex = NoHolder

NextIncrement ==
    \/ \E c \in Callers : Acquire(c)
    \/ \E c \in Callers : IncrementRead(c)
    \/ \E c \in Callers : IncrementWrite(c)
    \/ \E c \in Callers : Release(c)

IdleIncrement ==
    /\ incMode = "idle"
    /\ incAddr = 0
    /\ incStart = 0
    /\ incPc = [c \in Callers |-> "start"]
    /\ incRead = [c \in Callers |-> NoneV]
    /\ mutex = NoHolder

----------------------------------------------------------------------------
(* Idle values of the parts a specification does not exercise *)

IdleSim ==
    /\ ModbusSimulator_init
    /\ simOp = NoCall
    /\ simRet = NoneV
    /\ lastWrite = [a \in Addr |-> NeverWritten]

IdleMap ==
    /\ mapPc = "idle"
    /\ modbus_data = EmptyDict
    /\ register_map = <<>>
    /\ observations = EmptyDict
    /\ action = IntV(0)
    /\ action_map = EmptyDict
    /\ writes = EmptyDict

IdleCfg ==
    /\ cfgPc = "idle"
    /\ cfgFile = NoneV
    /\ cfgOut = NoneV

IdleScene ==
    /\ scenePc = "idle"
    /\ sceneFile = NoneV
    /\ sceneLog = <<>>
    /\ sceneOut = NoneV

IdleLv ==
    /\ lvPc = "idle"
    /\ builder = ""
    /\ clock = 0
    /\ heap = [id \in ObjIds |-> NoneV]
    /\ payload = NoneV
    /\ fs = [p \in Paths |-> NoFile]
    /\ dest = NoDest
    /\ expOut = NoneV
    /\ impOut = NoneV
    /\ dirs = WorkingDir
    /\ stdout = <<>>

IdleStatus ==
    /\ statPc = "idle"
    /\ statText = <<>>
    /\ indicator = <<>>

IdleCore == IdleSim /\ IdleMap /\ IdleCfg /\ IdleScene
IdleExt == IdleStatus /\ IdleConcurrent /\ IdleCycle /\ IdleIncrement

InitSimOnly == InitSim /\ IdleMap /\ IdleCfg /\ IdleScene /\ IdleLv /\ IdleExt
InitMapperOnly == IdleSim /\ InitMapper /\ IdleCfg /\ IdleScene /\ IdleLv /\ IdleExt
InitConfigOnly == IdleSim /\ IdleMap /\ InitConfig /\ IdleScene /\ IdleLv /\ IdleExt
InitSceneOnly == IdleSim /\ IdleMap /\ IdleCfg /\ InitScene /\ IdleLv /\ IdleExt
InitExchangeOnly == IdleCore /\ InitExchange /\ IdleExt
InitImportOnly == IdleCore /\ InitImport /\ IdleExt
InitStatusOnly == IdleCore /\ IdleLv /\ InitStatus /\ IdleConcurrent /\ IdleCycle /\ IdleIncrement
InitConcurrentOnly == IdleCore /\ IdleLv /\ IdleStatus /\ InitConcurrent /\ IdleCycle /\ IdleIncrement
InitCycleOnly ==
    InitCycle /\ IdleCfg /\ IdleScene /\ IdleLv /\ IdleStatus /\ IdleConcurrent /\ IdleIncrement
InitIncrementOnly ==
    InitIncrement /\ IdleMap /\ IdleCfg /\ IdleScene /\ IdleLv /\ IdleStatus
        /\ IdleConcurrent /\ IdleCycle

SpecSim == InitSimOnly /\ [][NextSim]_vars
SpecMapper == InitMapperOnly /\ [][NextMapper]_vars
SpecConfig == InitConfigOnly /\ [][NextConfig]_vars
SpecScene == InitSceneOnly /\ [][NextScene]_vars
SpecExchange == InitExchangeOnly /\ [][NextExchange]_vars
SpecImport == InitImportOnly /\ [][NextImport]_vars
SpecStatus == InitStatusOnly /\ [][NextStatus]_vars
SpecConcurrent == InitConcurrentOnly /\ [][NextConcurrent]_vars
SpecCycle == InitCycleOnly /\ [][NextCycle]_vars
SpecIncrement == InitIncrementOnly /\ [][NextIncrement]_vars

----------------------------------------------------------------------------
(* Claims about RegisterMapper *)

\* The descriptor register_map declares for name, and its fields with the
\* documented defaults.
DescriptorOf(regmap, name) ==
    regmap[CHOOSE i \in 1..Len(regmap) : regmap[i][1] = name][2]
ConversionOf(d) == IF "conversion" \in DOMAIN d THEN d["conversion"] ELSE 1
OffsetOf(d) == IF "offset" \in DOMAIN d THEN d["offset"] ELSE 0

\* The names of regmap whose configured register address is a key of data.
MappedNames(data, regmap) ==
    {name \in Keys(regmap) :
        /\ "register" \in DOMAIN DescriptorOf(regmap, name)
        /\ DescriptorOf(regmap, name)["register"] \in DOMAIN data}

\* C1: the key set of observe(S, M) is exactly the set of names of M whose
\* configured register address is a key of S.
C1_ObserveKeys ==
    mapPc = "observed" =>
        DOMAIN observations = MappedNames(modbus_data, register_map)

\* A map with one name whose register is in the snapshot and one whose
\* register is not.
C1_Witness ==
    /\ mapPc = "observed"
    /\ Len(register_map) = 2
    /\ Cardinality(DOMAIN observations) = 1
    /\ \E i \in 1..2 :
        /\ "register" \in DOMAIN register_map[i][2]
        /\ register_map[i][2]["register"] \notin DOMAIN modbus_data
    /\ modbus_data # EmptyDict

\* C2: every name n of observe(S, M) holds
\* S[M[n].register] * M[n].conversion + M[n].offset, conversion defaulting
\* to 1 and offset to 0; a descriptor with only `register` yields the raw value.
C2_LinearConversion ==
    mapPc = "observed" =>
        \A name \in DOMAIN observations :
            LET d == DescriptorOf(register_map, name)
                raw == modbus_data[d["register"]]
            IN  /\ observations[name] = raw * ConversionOf(d) + OffsetOf(d)
                /\ DOMAIN d = {"register"} => observations[name] = raw

\* One name converted with both a conversion and an offset, another with the
\* defaults.
C2_Witness ==
    /\ mapPc = "observed"
    /\ \E n1, n2 \in DOMAIN observations :
        /\ DOMAIN DescriptorOf(register_map, n1) = {"register", "conversion", "offset"}
        /\ modbus_data[DescriptorOf(register_map, n1)["register"]] = 2
        /\ observations[n1] = 2 * 2 + (-4)
        /\ DOMAIN DescriptorOf(register_map, n2) = {"register"}
        /\ observations[n2] = 1

\* The coerced addresses of a configuration, and the last pair declared for one.
CoercedAddresses(config) == {PyInt(config[i][1]) : i \in 1..Len(config)}
LastDeclared(config, address) ==
    config[CHOOSE i \in 1..Len(config) :
              /\ PyInt(config[i][1]) = address
              /\ \A j \in (i + 1)..Len(config) : PyInt(config[j][1]) # address][2]

\* act(i, A) is one write per configured pair, each with its configured value.
ExactlyConfiguredPairs(config, w) ==
    /\ DOMAIN w = CoercedAddresses(config)
    /\ Cardinality(DOMAIN w) = Len(config)
    /\ \A i \in 1..Len(config) : w[PyInt(config[i][1])] = config[i][2]

\* C3 as claimed: for an index i that is a key of A, act(i, A) is exactly the
\* configured pairs of A[i] with each address coerced to an integer, one
\* write per pair, none extra and none missing.
C3_Original ==
    (mapPc = "acted" /\ action \in DOMAIN action_map) =>
        ExactlyConfiguredPairs(action_map[action], writes)

\* C3 as amended: for an index i that is a key of A, the addresses of
\* act(i, A) are exactly the integer coercions of the addresses A[i]
\* configures, and each carries the value of the last pair declared for that
\* integer; when the coercions are pairwise distinct that is exactly one
\* write per configured pair.
C3_CoercedLastWins ==
    (mapPc = "acted" /\ action \in DOMAIN action_map) =>
        LET config == action_map[action]
        IN  /\ DOMAIN writes = CoercedAddresses(config)
            /\ \A a \in DOMAIN writes : writes[a] = LastDeclared(config, a)
            /\ Cardinality(CoercedAddresses(config)) = Len(config)
                   => ExactlyConfiguredPairs(config, writes)

\* A configuration whose string addresses "1" and "01" coerce to the same
\* integer with different values.
C3_Witness ==
    /\ mapPc = "acted"
    /\ action \in DOMAIN action_map
    /\ action_map[action] = <<<<StrV(<<1>>), IntV(0)>>, <<StrV(<<0, 1>>), IntV(1)>>>>
    /\ writes = DictSet(EmptyDict, 1, IntV(1))

\* C4: for an index that is not a key of A, act returns the empty write-set.
C4_AbsentIndexNoOp ==
    (mapPc = "acted" /\ action \notin DOMAIN action_map) => writes = EmptyDict

\* The index 1 looked up in a map that has the string key "1" and no key 1.
C4_Witness ==
    /\ mapPc = "acted"
    /\ action = IntV(1)
    /\ DOMAIN action_map = {StrV(<<1>>)}
    /\ action_map[StrV(<<1>>)] # <<>>
    /\ writes = EmptyDict

\* C22: act looks the index up by exact key equality: in an action map whose
\* top-level keys are all strings an integer index matches nothing and the
\* write-set is empty, even when the map has the key str(i); the addresses of
\* a matched entry are the integers its keys coerce to.
C22_ExactKeyLookup ==
    mapPc = "acted" =>
        /\ (action.k = "int" /\ \A key \in DOMAIN action_map : key.k = "str")
               => writes = EmptyDict
        /\ action \in DOMAIN action_map
               => DOMAIN writes =
                     {PyInt(action_map[action][i][1]) :
                         i \in 1..Len(action_map[action])}

\* The index 1 looked up in a map whose only key is the string "1", holding
\* a write of 1 to the string address "1"; no write is produced.
C22_Witness ==
    /\ mapPc = "acted"
    /\ action = IntV(1)
    /\ DOMAIN action_map = {StrV(<<1>>)}
    /\ action_map[StrV(<<1>>)] = <<<<StrV(<<1>>), IntV(1)>>>>
    /\ writes = EmptyDict

\* The index 1 matched by the integer key 1, next to a string key "1": the
\* string address "01" of the matched entry is written as the integer 1.
C22_WitnessMatched ==
    /\ mapPc = "acted"
    /\ action = IntV(1)
    /\ DOMAIN action_map = {IntV(1), StrV(<<1>>)}
    /\ action_map[IntV(1)] = <<<<StrV(<<0, 1>>), IntV(1)>>>>
    /\ writes = DictSet(EmptyDict, 1, IntV(1))

----------------------------------------------------------------------------
(* Claims about the ModbusConfig loader *)

MissingKeyError(key) == Raise("ValueError", <<"Missing required key: ", key>>)
IsValidationError(out) ==
    out.kind = "raise" /\ out.exc = "ValueError" /\ out.arg[1] = "Missing required key: "

\* C8: load fails with the validation error exactly when slave_id or
\* registers is missing from the decoded configuration, naming the first
\* missing key in the order slave_id, registers; with both present it
\* returns the configuration as decoded, whatever the types of the values.
C8_ValidationByPresence ==
    cfgPc = "done" =>
        /\ IsValidationError(cfgOut) =>
               cfgFile.io = "ok" /\ cfgFile.json = "object"
        /\ (cfgFile.io = "ok" /\ cfgFile.json = "object") =>
               LET config == cfgFile.value
               IN  /\ "slave_id" \notin DOMAIN config
                          => cfgOut = MissingKeyError("slave_id")
                   /\ ("slave_id" \in DOMAIN config /\ "registers" \notin DOMAIN config)
                          => cfgOut = MissingKeyError("registers")
                   /\ {"slave_id", "registers"} \subseteq DOMAIN config
                          => cfgOut = Return(config)

\* A load of a file with both keys present and a slave_id that is a string.
C8_Witness ==
    /\ cfgPc = "done"
    /\ cfgFile.json = "object"
    /\ {"slave_id", "registers"} \subseteq DOMAIN cfgFile.value
    /\ cfgFile.value["slave_id"] = StrV(<<1>>)
    /\ cfgOut.kind = "return"
    /\ cfgOut.value["slave_id"] = StrV(<<1>>)

\* C9: every configuration a successful load returns has a non-empty
\* `registers` collection.
C9_RegistersNonEmpty ==
    (cfgPc = "done" /\ cfgOut.kind = "return") =>
        (cfgOut.value["registers"].k \in {"list", "dict"}
            => Len(cfgOut.value["registers"].s) > 0)

----------------------------------------------------------------------------
(* Claims about the scene parser *)

SceneFormatError(path) == Raise("ValueError", <<"Unable to parse scene file: ", path>>)
Attempted(stage) == \E i \in 1..Len(sceneLog) : sceneLog[i] = stage
MarkupMalformed == sceneFile.io1 = "ok" /\ sceneFile.content # "xml"

\* C10: load_scene attempts the markup parse first and the JSON parse only
\* when the markup parse failed as malformed markup; it raises the
\* scene-format error, naming the source, only when both parses failed; an
\* I/O error at either stage propagates unchanged, and an I/O error in the
\* markup stage does not trigger the JSON fallback.
C10_MarkupThenJson ==
    scenePc = "done" =>
        /\ sceneLog[1] = "xml"
        /\ Attempted("json") => MarkupMalformed
        /\ (sceneOut.kind = "raise" /\ sceneOut.exc = "ValueError") =>
               /\ MarkupMalformed
               /\ sceneFile.io2 = "ok"
               /\ sceneFile.content \notin {"xml", "json"}
               /\ sceneOut = SceneFormatError(sceneFile.path)
        /\ sceneFile.io1 # "ok" =>
               /\ sceneOut = Raise(sceneFile.io1, <<sceneFile.path>>)
               /\ ~Attempted("json")
        /\ (MarkupMalformed /\ sceneFile.io2 # "ok") =>
               sceneOut = Raise(sceneFile.io2, <<sceneFile.path>>)

\* A file that is valid JSON but cannot be opened: the markup stage's
\* FileNotFoundError is raised and the JSON parse is never attempted.
C10_Witness ==
    /\ scenePc = "done"
    /\ sceneFile.io1 = "FileNotFoundError"
    /\ sceneFile.io2 = "ok"
    /\ sceneFile.content = "json"
    /\ sceneLog = <<"xml">>
    /\ sceneOut = Raise("FileNotFoundError", <<sceneFile.path>>)

\* The positions of a document's elements below the root: child indexes from
\* the root down. Document order puts an element before its descendants and
\* before everything under its later siblings.
RECURSIVE ValidPath(_, _)
ValidPath(element, path) ==
    \/ path = <<>>
    \/ /\ Head(path) <= Len(element.children)
       /\ ValidPath(element.children[Head(path)], Tail(path))

RECURSIVE ElemAt(_, _)
ElemAt(element, path) ==
    IF path = <<>> THEN element
    ELSE ElemAt(element.children[Head(path)], Tail(path))

ComponentPaths(root) ==
    {p \in SeqsUpTo(1..MaxChildren, 2) \ {<<>>} :
        ValidPath(root, p) /\ ElemAt(root, p).tag = "Component"}

DocBefore(p, q) ==
    \/ Len(p) < Len(q) /\ SubSeq(q, 1, Len(p)) = p
    \/ \E i \in 1..Len(p) :
        /\ i <= Len(q)
        /\ SubSeq(p, 1, i - 1) = SubSeq(q, 1, i - 1)
        /\ p[i] < q[i]

DocRank(root, p) ==
    1 + Cardinality({q \in ComponentPaths(root) : DocBefore(q, p)})

\* C11: on markup success load_scene returns the format "xml", the root's
\* tag and attributes, and one component per descendant element tagged
\* Component, in document order, each with the element's name, type and
\* whole attribute set; a JSON scene is returned as decoded.
C11_SceneComponents ==
    (scenePc = "done" /\ sceneFile.io1 = "ok") =>
        /\ sceneFile.content = "xml" =>
               LET root == sceneFile.root
                   scene == sceneOut.value
               IN  /\ sceneOut.kind = "return"
                   /\ scene.format = "xml"
                   /\ scene.root_tag = root.tag
                   /\ scene.attributes = root.attrib
                   /\ Len(scene.components) = Cardinality(ComponentPaths(root))
                   /\ \A p \in ComponentPaths(root) :
                       LET element == ElemAt(root, p)
                           component == scene.components[DocRank(root, p)]
                       IN  /\ component.name =
                                  (IF "name" \in DOMAIN element.attrib
                                   THEN Text(element.attrib["name"]) ELSE NoText)
                           /\ component.type =
                                  (IF "type" \in DOMAIN element.attrib
                                   THEN Text(element.attrib["type"]) ELSE NoText)
                           /\ component.properties = element.attrib
        /\ (sceneFile.content = "json" /\ sceneFile.io2 = "ok") =>
               sceneOut = Return(sceneFile.value)

\* A document whose first child is a Component holding a nested Component
\* and whose second child is a Group holding a Component without a name.
C11_Witness ==
    /\ scenePc = "done"
    /\ sceneFile.io1 = "ok"
    /\ sceneFile.content = "xml"
    /\ Len(sceneFile.root.children) = 2
    /\ Len(sceneFile.root.children[1].children) = 1
    /\ sceneFile.root.children[2].tag = "Group"
    /\ Len(sceneOut.value.components) = 3
    /\ sceneOut.value.components[2].name = Text("c2")
    /\ sceneOut.value.components[3].name = NoText

----------------------------------------------------------------------------
(* Claims about ModbusSimulator *)

\* What read_register / read_coil return in the current state.
RegisterRead(a) == DictGet(registers, a, IntV(0))
CoilRead(a) == DictGet(registers, a, BoolV(FALSE))

\* C5: write_register and write_coil return success in every state, and while
\* the most recent write to an address a is write_register(a, v) a
\* read_register(a) returns v; likewise write_coil(a, v) and read_coil(a).
C5_WriteThenRead ==
    /\ simOp.op \in {"write_register", "write_coil"} => simRet = BoolV(TRUE)
    /\ \A a \in Addr :
        /\ lastWrite[a].kind = "register" => RegisterRead(a) = lastWrite[a].value
        /\ lastWrite[a].kind = "coil" => CoilRead(a) = lastWrite[a].value
    /\ (simOp.op = "read_register" /\ lastWrite[simOp.address].kind = "register")
           => simRet = lastWrite[simOp.address].value
    /\ (simOp.op = "read_coil" /\ lastWrite[simOp.address].kind = "coil")
           => simRet = lastWrite[simOp.address].value

\* A written register is read back while another address holds a coil.
C5_Witness ==
    /\ simOp.op = "read_register"
    /\ lastWrite[simOp.address] = Written("register", IntV(1))
    /\ simRet = IntV(1)
    /\ \E c \in Addr \ {simOp.address} : lastWrite[c].kind = "coil"

\* C6: the simulator is created empty, and an address that no write_register,
\* write_coil or update_state has targeted reads 0 as a register and false
\* as a coil.
C6_NeverWrittenDefaults ==
    /\ \A a \in Addr :
        lastWrite[a].kind = "none" =>
            /\ a \notin DOMAIN registers
            /\ RegisterRead(a) = IntV(0)
            /\ CoilRead(a) = BoolV(FALSE)
    /\ (simOp.op = "read_register" /\ lastWrite[simOp.address].kind = "none")
           => simRet = IntV(0)
    /\ (simOp.op = "read_coil" /\ lastWrite[simOp.address].kind = "none")
           => simRet = BoolV(FALSE)

\* A never-written address is read as a register while another address holds
\* a written value.
C6_Witness ==
    /\ simOp.op = "read_register"
    /\ lastWrite[simOp.address].kind = "none"
    /\ simRet = IntV(0)
    /\ \E c \in Addr : lastWrite[c].kind # "none" /\ c \in DOMAIN registers

\* C7: update_state(values) makes every address of values read back its new
\* value and leaves every other address as it was: a set address keeps its
\* value, an unset address stays unset.
C7_UpdateStateMerges ==
    [][simOp'.op = "update_state" =>
        \A a \in Addr :
            IF a \in DOMAIN simOp'.values
            THEN a \in DOMAIN registers' /\ registers'[a] = simOp'.values[a]
            ELSE /\ (a \in DOMAIN registers') = (a \in DOMAIN registers)
                 /\ a \in DOMAIN registers => registers'[a] = registers[a]]_vars

\* An update_state that overwrote one address and left alone another that
\* write_register had set.
C7_Witness ==
    /\ simOp.op = "update_state"
    /\ \E a \in DOMAIN simOp.values, c \in Addr \ DOMAIN simOp.values :
        /\ lastWrite[c] = Written("register", IntV(1))
        /\ registers[c] = IntV(1)
        /\ registers[a] = simOp.values[a]

\* C16: registers and coils share one store.  A write_coil(a, b) issued while
\* the last write to a was write_register(a, v) succeeds and makes a read as
\* b, as a register and as a coil; likewise write_register(a, v) over a coil;
\* a read_register of an address last written as a coil returns the coil's
\* value and a read_coil of one last written as a register returns the
\* register's value; the colliding write changes no other address.
C16_SharedStore ==
    [][LET a == simOp'.address
           Frame == \A c \in Addr \ {a} :
                        /\ (c \in DOMAIN registers') = (c \in DOMAIN registers)
                        /\ c \in DOMAIN registers => registers'[c] = registers[c]
       IN  /\ (simOp'.op = "write_coil" /\ lastWrite[a].kind = "register") =>
                 /\ simRet' = BoolV(TRUE)
                 /\ DictGet(registers', a, IntV(0)) = simOp'.value
                 /\ DictGet(registers', a, BoolV(FALSE)) = simOp'.value
                 /\ Frame
           /\ (simOp'.op = "write_register" /\ lastWrite[a].kind = "coil") =>
                 /\ simRet' = BoolV(TRUE)
                 /\ DictGet(registers', a, BoolV(FALSE)) = simOp'.value
                 /\ DictGet(registers', a, IntV(0)) = simOp'.value
                 /\ Frame
           /\ (simOp'.op = "read_register" /\ lastWrite[a].kind = "coil") =>
                 simRet' = lastWrite[a].value
           /\ (simOp'.op = "read_coil" /\ lastWrite[a].kind = "register") =>
                 simRet' = lastWrite[a].value]_vars

\* A read_register returned the bool a coil write left at its address while
\* another address still holds the register value written to it.
C16_Witness ==
    /\ simOp.op = "read_register"
    /\ lastWrite[simOp.address] = Written("coil", BoolV(TRUE))
    /\ simRet = BoolV(TRUE)
    /\ \E c \in Addr \ {simOp.address} :
          lastWrite[c] = Written("register", IntV(1)) /\ registers[c] = IntV(1)

\* C21: read_register and read_coil leave the store as it is (an unset
\* address stays unset), write_register(a, v) and write_coil(a, v) set
\* address a to v and change no other address, and no operation changes
\* slave_id.
C21_ChangeOnlyWhatNamed ==
    [][/\ slave_id' = slave_id
       /\ simOp'.op \in {"read_register", "read_coil"} => registers' = registers
       /\ simOp'.op \in {"write_register", "write_coil"} =>
             /\ DOMAIN registers' = DOMAIN registers \cup {simOp'.address}
             /\ registers'[simOp'.address] = simOp'.value
             /\ \A c \in DOMAIN registers \ {simOp'.address} :
                   registers'[c] = registers[c]]_vars

\* A read of an unset address returned the default and left the address
\* unset, while another address holds a written value.
C21_Witness ==
    /\ simOp.op = "read_register"
    /\ simOp.address \notin DOMAIN registers
    /\ simRet = IntV(0)
    /\ slave_id = DefaultSlaveId
    /\ \E c \in Addr \ {simOp.address} :
          c \in DOMAIN registers /\ lastWrite[c].kind = "coil"

----------------------------------------------------------------------------
(* Claims about the LabVIEW exchange *)

\* a value json writes and reads back as itself: str keys, and no tuple or
\* other object json has no type for
RECURSIVE JsonNative(_)
JsonNative(v) ==
    CASE v.k = "dict" ->
            \A i \in 1..Len(v.s) : v.s[i][1].k = "str" /\ JsonNative(v.s[i][2])
      [] v.k = "list" -> \A i \in 1..Len(v.s) : JsonNative(v.s[i])
      [] v.k \in {"str", "int", "float", "bool", "none"} -> TRUE
      [] OTHER -> FALSE

\* the payload as its caller sees it
PayloadValue == Deref(payload, heap)

DecisionExportedAsJson ==
    /\ lvPc = "imported"
    /\ builder = "prepare_ai_decision"
    /\ dest.format = "json"

\* C12 as stated: for any payload built by prepare_ai_decision and any
\* destination path, importing the path after a 'json' export returns the
\* payload's timestamp, action, confidence, power_savings_kw and metadata.
C12_Original ==
    DecisionExportedAsJson => impOut = Return(PayloadValue)

\* C12, amended: the round trip holds when the destination path ends in
\* ".json" and the metadata holds only str keys and values json has a type
\* for; on a ".json" path the timestamp and the ai_decision fields come back
\* whenever the export did not raise.
C12_JsonRoundTrip ==
    (DecisionExportedAsJson /\ EndsWith(dest.path, ".json")) =>
        /\ JsonNative(ItemsGet(PayloadValue.s, Key.metadata)) =>
              impOut = Return(PayloadValue)
        /\ expOut.kind = "return" =>
              /\ impOut.kind = "return"
              /\ impOut.value.k = "dict"
              /\ \A key \in {Key.timestamp, Key.ai_decision} :
                    /\ key \in Keys(impOut.value.s)
                    /\ ItemsGet(impOut.value.s, key) = ItemsGet(PayloadValue.s, key)

\* a decision with nested metadata came back from a ".json" file
C12_Witness ==
    /\ DecisionExportedAsJson
    /\ EndsWith(dest.path, ".json")
    /\ ItemsGet(PayloadValue.s, Key.metadata) =
          DictV(<< <<K, DictV(<< <<StrV(<<"n">>), FloatV(15)>> >>)>> >>)
    /\ ItemsGet(ItemsGet(PayloadValue.s, Key.ai_decision).s, Key.confidence) = FloatV(5)
    /\ impOut = Return(PayloadValue)

\* the source import_from_labview was given, and the rows after its header
\* line that are not blank
Source == fs[dest.path]
DataRows == IF Source.rows = <<>> THEN <<>>
            ELSE SelectSeq(Tail(Source.rows), LAMBDA row : row # <<>>)

\* C13 as stated: a ".json" source is parsed as JSON, a ".csv" source yields
\* a flat mapping whose values are all strings, any other source fails with
\* the unsupported-format error.
C13_Original ==
    (lvPc = "imported" /\ Source.kind # "none") =>
        IF EndsWith(dest.path, ".json")
        THEN Source.json # JInvalid => impOut = Return(JsonLoad(Source.json))
        ELSE IF EndsWith(dest.path, ".csv")
        THEN /\ impOut.kind = "return"
             /\ impOut.value.k = "dict"
             /\ \A i \in 1..Len(impOut.value.s) :
                    impOut.value.s[i][1].k = "str" /\ impOut.value.s[i][2].k = "str"
        ELSE impOut.kind = "raise" /\ impOut.exc = "ValueError"

\* C13, amended: the dispatch looks only at the end of the path.  ".json":
\* the JSON structure, or JSONDecodeError when the text is not JSON.  ".csv":
\* the first non-blank row after the header line, keyed by the header cells;
\* all its values are strings when it has as many cells as the header, a
\* shorter row leaves the missing fields None, a longer row puts the surplus
\* cells in a list under the key None, and a source without such a row
\* raises StopIteration.  Any other path: ValueError naming the whole path.
\* A missing ".json" or ".csv" source raises FileNotFoundError.
C13_DispatchByExtension ==
    lvPc = "imported" =>
        IF EndsWith(dest.path, ".json")
        THEN CASE Source.kind = "none" -> impOut = Raise("FileNotFoundError", dest.path)
               [] Source.kind # "none" /\ Source.json = JInvalid ->
                    impOut.kind = "raise" /\ impOut.exc = "JSONDecodeError"
               [] OTHER -> impOut = Return(JsonLoad(Source.json))
        ELSE IF EndsWith(dest.path, ".csv")
        THEN CASE Source.kind = "none" -> impOut = Raise("FileNotFoundError", dest.path)
               [] Source.kind # "none" /\ DataRows = <<>> ->
                    impOut.kind = "raise" /\ impOut.exc = "StopIteration"
               [] OTHER ->
                    LET header == Source.rows[1]
                        row == DataRows[1]
                        got == impOut.value.s
                    IN  /\ impOut.kind = "return"
                        /\ impOut.value.k = "dict"
                        /\ \A i \in 1..Len(header) :
                              /\ StrV(header[i]) \in Keys(got)
                              /\ (\A j \in (i + 1)..Len(header) : header[j] # header[i]) =>
                                    ItemsGet(got, StrV(header[i])) =
                                        IF i <= Len(row) THEN StrV(row[i]) ELSE NoneV
                        /\ IF Len(row) > Len(header)
                           THEN /\ Keys(got) = {StrV(header[i]) : i \in 1..Len(header)} \cup {NoneV}
                                /\ ItemsGet(got, NoneV) =
                                      ListV([i \in 1..(Len(row) - Len(header)) |->
                                               StrV(row[Len(header) + i])])
                           ELSE Keys(got) = {StrV(header[i]) : i \in 1..Len(header)}
                        /\ Len(row) = Len(header) =>
                              \A i \in 1..Len(got) : got[i][2].k = "str"
        ELSE impOut = Raise("ValueError", <<"Unsupported file format: ">> \o dest.path)

\* a ".csv" source whose header line is followed by a blank line and two
\* rows gave the first of the two rows, as strings
C13_Witness ==
    /\ lvPc = "imported"
    /\ EndsWith(dest.path, ".csv")
    /\ Len(Source.rows) = 4
    /\ Source.rows[2] = <<>>
    /\ impOut = Return(DictV(<< <<StrV(<<"a">>), StrV(<<"1">>)>>,
                                <<StrV(<<"b">>), StrV(<<"2">>)>> >>))

\* the non-mapping leaves of a dict, in order, each with the name that joins
\* the keys on its path with "_"
RECURSIVE Leaves(_, _)
Leaves(items, path) ==
    IF items = <<>> THEN <<>>
    ELSE LET here == Append(path, PyStr(items[1][1]))
         IN  (IF items[1][2].k = "dict" THEN Leaves(items[1][2].s, here)
              ELSE << <<JoinTexts(here, <<"_">>), items[1][2]>> >>)
                 \o Leaves(Tail(items), path)

ExportedAsCsv == lvPc \in {"exported", "imported"} /\ dest.format = "csv"

\* C14 as stated: a 'csv' export writes one header row and one data row,
\* with one column for every non-mapping leaf of the payload, named by the
\* joined keys of its path and holding its value.
C14_Original ==
    ExportedAsCsv =>
        LET leaves == Leaves(PayloadValue.s, <<>>)
        IN  fs[dest.path].rows = << [i \in 1..Len(leaves) |-> leaves[i][1]],
                                    [i \in 1..Len(leaves) |-> CsvCell(leaves[i][2])] >>

\* C14, amended: one header row and one data row, with one column for every
\* distinct joined name, in the order the names first occur, holding the
\* value of the last leaf of that name; when the joined names of the leaves
\* are pairwise distinct this is one column per leaf.
C14_CsvColumns ==
    ExportedAsCsv =>
        LET leaves == Leaves(PayloadValue.s, <<>>)
            rows == fs[dest.path].rows
            First(i) == \A j \in 1..(i - 1) : leaves[j][1] # leaves[i][1]
            Last(i) == \A j \in (i + 1)..Len(leaves) : leaves[j][1] # leaves[i][1]
            Column(i) == 1 + Cardinality({j \in 1..(i - 1) : First(j)})
        IN  /\ Len(rows) = 2
            /\ Len(rows[1]) = Cardinality({i \in 1..Len(leaves) : First(i)})
            /\ Len(rows[2]) = Len(rows[1])
            /\ \A i \in 1..Len(leaves) : First(i) => rows[1][Column(i)] = leaves[i][1]
            /\ \A i \in 1..Len(leaves) :
                  Last(i) =>
                      \E f \in 1..i :
                          /\ First(f)
                          /\ leaves[f][1] = leaves[i][1]
                          /\ rows[2][Column(f)] = CsvCell(leaves[i][2])
            /\ (\A i \in 1..Len(leaves) : First(i)) =>
                  rows = << [i \in 1..Len(leaves) |-> leaves[i][1]],
                            [i \in 1..Len(leaves) |-> CsvCell(leaves[i][2])] >>

\* a decision whose metadata holds an empty mapping, a None, a list and a
\* bool was written as seven columns
C14_Witness ==
    /\ ExportedAsCsv
    /\ builder = "prepare_ai_decision"
    /\ Len(fs[dest.path].rows) = 2
    /\ Len(fs[dest.path].rows[1]) = 7
    /\ fs[dest.path].rows[1][5] = <<"metadata", "_", "n">>
    /\ fs[dest.path].rows[2][5] = <<>>
    /\ fs[dest.path].rows[2][6] = <<"[", "1", ", ", "'", "a", "'", "]">>

Built == lvPc \in {"built", "exported", "imported"}

\* C17: once a builder has returned a payload, the payload's timestamp and
\* field values are the same after every later step, the caller's changes to
\* the mapping it passed included.
C17_PayloadImmutable ==
    [][Built => PayloadValue' = PayloadValue]_vars

\* C18: every payload prepare_ai_decision builds carries a confidence within
\* [0, 1] (0..10 tenths).
C18_ConfidenceInUnitInterval ==
    (Built /\ builder = "prepare_ai_decision") =>
        LET confidence == ItemsGet(ItemsGet(payload.s, Key.ai_decision).s, Key.confidence)
        IN  confidence.k = "float" /\ 0 <= confidence.n /\ confidence.n <= 10

----------------------------------------------------------------------------
(* Claims about status_indicator *)

\* C19: status_indicator returns the icon of the status (green circle for
\* "operational", yellow circle for "warning", red circle for "error", the
\* unknown-status icon for any other text), a space, and the status text in
\* upper case.
C19_StatusIndicator ==
    statPc = "done" =>
        /\ Len(indicator) = Len(statText) + 2
        /\ indicator[1] = (IF statText = OPERATIONAL THEN "green circle"
                           ELSE IF statText = WARNING THEN "yellow circle"
                           ELSE IF statText = ERROR THEN "red circle"
                           ELSE "question mark")
        /\ indicator[2] = " "
        /\ \A i \in 1..Len(statText) :
              IF \E j \in 1..Len(Lower) : Lower[j] = statText[i]
              THEN \E j \in 1..Len(Lower) :
                      Lower[j] = statText[i] /\ indicator[i + 2] = Upper[j]
              ELSE indicator[i + 2] = statText[i]

\* "Error", which is none of the three statuses, got the unknown-status icon
\* and its upper-case text
C19_Witness ==
    /\ statPc = "done"
    /\ statText = <<"E", "r", "r", "o", "r">>
    /\ indicator = <<"question mark", " ", "E", "R", "R", "O", "R">>

----------------------------------------------------------------------------
(* Claims about concurrent use of RegisterMapper *)

\* C15: under every interleaving of concurrent observe and act calls the
\* snapshot, the register map and the action map stay as they were given,
\* every call returns the mapping it built itself, holding what the call
\* returns when run alone, and a caller's later change to the mapping it got
\* back alters neither the configuration nor another caller's result.
C15_PureConcurrent ==
    /\ conHeap.modbus_data = conGiven.modbus_data
    /\ conHeap.register_map = conGiven.register_map
    /\ conHeap.action_map = conGiven.action_map
    /\ \A t \in Threads :
          /\ conThread[t].pc \in {"returned", "changed"} => conThread[t].ret = "out"
          /\ conThread[t].pc = "returned" =>
                conHeap.out[t] =
                    IF conThread[t].op = "observe"
                    THEN map_modbus_to_observation(conGiven.modbus_data,
                                                   conGiven.register_map)
                    ELSE map_action_to_modbus(conGiven.action, conGiven.action_map)

\* two act calls over the same action map: one caller has changed the mapping
\* it got back, the other holds the full write-set
C15_Witness ==
    /\ \A t \in Threads : conThread[t].op = "act"
    /\ conThread[1].pc = "changed"
    /\ conThread[2].pc = "returned"
    /\ conHeap.out[2] = map_action_to_modbus(conGiven.action, conGiven.action_map)
    /\ DOMAIN conHeap.out[2] = {0, MaxAddr}
    /\ conHeap.out[1] # conHeap.out[2]

----------------------------------------------------------------------------
(* Claims about the control cycle *)

\* C20: when a cycle's write-set has been applied through write_register,
\* every address of the write-set reads back its configured value and every
\* other address is as it was when the action was chosen; an action index
\* absent from the action map leaves the simulator unchanged; across cycles
\* each written address holds the value of the most recent write-set that
\* contained it, and the observation made at the start of a cycle gives, for
\* every name mapped to such an address, that value * conversion + offset.
C20_ControlCycle ==
    /\ (mapPc = "acted" /\ pending = {}) =>
          /\ \A a \in DOMAIN writes : DictGet(registers, a, IntV(0)) = writes[a]
          /\ \A a \in Addr \ DOMAIN writes :
                /\ (a \in DOMAIN registers) = (a \in DOMAIN before)
                /\ a \in DOMAIN registers => registers[a] = before[a]
          /\ action \notin DOMAIN action_map => registers = before
    /\ \A a \in Addr :
          lastWrite[a].kind = "register" => DictGet(registers, a, IntV(0)) = lastWrite[a].value
    /\ mapPc = "observed" =>
          \A i \in 1..Len(register_map) :
              LET name == register_map[i][1]
                  config == register_map[i][2]
              IN  lastWrite[config.register].kind = "register" =>
                      /\ name \in DOMAIN observations
                      /\ observations[name] =
                            lastWrite[config.register].value.n
                                * DictGet(config, "conversion", 1)
                                + DictGet(config, "offset", 0)

\* after two actions the next cycle observes temp = 1 * 2 + 3 from address 0,
\* which the latest action wrote, while the earlier action's write to the
\* other address is still in place
C20_Witness ==
    /\ mapPc = "observed"
    /\ cycles = 2
    /\ action = IntV(1)
    /\ lastWrite[0] = Written("register", IntV(1))
    /\ lastWrite[MaxAddr] = Written("register", IntV(0))
    /\ "temp" \in DOMAIN observations
    /\ observations["temp"] = 5

----------------------------------------------------------------------------
(* Claims about callers sharing one simulator *)

BothDone == \A c \in Callers : incPc[c] = "done"
FinalValue == DictGet(registers, incAddr, IntV(0)).n

\* C23: the simulator has no atomic read-modify-write. When two callers have
\* each run read_register(a) and write_register(a, value read + 1), the
\* value at a is the start value plus 2 whenever each caller's pair ran under
\* the callers' mutex; without the mutex it is the start value plus 1 or
\* plus 2, according to the interleaving.
C23_IncrementsKept ==
    BothDone =>
        /\ incMode = "mutex" => FinalValue = incStart + 2
        /\ incMode = "bare" => FinalValue \in {incStart + 1, incStart + 2}

\* Without the mutex both callers read the same value before either wrote:
\* the value at a reflects one increment only.
C23_Witness ==
    /\ incMode = "bare"
    /\ BothDone
    /\ incRead[1] = incRead[2]
    /\ FinalValue = incStart + 1

\* The two callers done under the mutex, the second having read what the
\* first wrote.
C23_WitnessMutex ==
    /\ incMode = "mutex"
    /\ BothDone
    /\ incRead[1] # incRead[2]
    /\ FinalValue = incStart + 2

----------------------------------------------------------------------------
(* Claims about an export in an unknown format *)

UnknownFormat == dest.format \notin {"json", "csv"}

\* C24: an export in a format other than 'json' and 'csv' raises nothing and
\* leaves every file as it was (no file is created, an existing file at the
\* destination keeps its content), while the destination's directory is
\* created and the export is reported on the standard output.
C24_UnknownFormatWritesNothing ==
    [][(lvPc = "built" /\ lvPc' = "exported"
            /\ dest'.format \notin {"json", "csv"}) =>
          /\ expOut' = Return(NoneV)
          /\ fs' = fs
          /\ dirs' = dirs \cup {Dirname(dest'.path)}
          /\ stdout' = Append(stdout, <<"Data exported to ", dest'.path>>)]_vars

\* An export as 'xml' to data/out.json, where an earlier export left a file:
\* the file still holds the earlier document.
C24_Witness ==
    /\ lvPc = "exported"
    /\ UnknownFormat
    /\ dest.path = EarlierPath
    /\ fs[dest.path] = EarlierExport
    /\ expOut = Return(NoneV)
    /\ Dirname(dest.path) \in dirs
    /\ stdout = <<<<"Data exported to ", dest.path>>>>

\* An export as 'xml' to data/out.json with no data directory and no file:
\* the directory exists afterwards, the file does not.
C24_WitnessCreatesDirectory ==
    /\ lvPc = "exported"
    /\ UnknownFormat
    /\ dest.path = EarlierPath
    /\ fs = [p \in Paths |-> NoFile]
    /\ expOut = Return(NoneV)
    /\ dirs = WorkingDir \cup {<<"data">>}
    /\ stdout = <<<<"Data exported to ", dest.path>>>>

====
